---------------------------- MODULE Spec2Model ----------------------------
(***************************************************************************)
(* A model of the consensus core of the proof-of-participation node:       *)
(* the memory pool and the hybrid fee system, the block-space manager,     *)
(* the hard-fork manager and the block validators, the participant         *)
(* registry, the UTXO maturity rule and the peer connection.               *)
(*                                                                         *)
(* Each subsystem has its own variables, its own initial predicate and its *)
(* own next-state relation; a specification of one subsystem leaves the    *)
(* variables of the others at their idle values.                           *)
(*                                                                         *)
(* Amounts of money are counted in units of 1,000 base units (COIN is      *)
(* 100,000 of them): TLC's integers are 32 bits wide and every amount the  *)
(* modelled code names is a whole number of such units.  Sizes are bytes.  *)
(***************************************************************************)
EXTENDS Integers, Sequences, FiniteSets, TLC

VARIABLES
    \* memory pool and hybrid fee system (part_008, participation.cpp)
    mapTransactions,    \* the pool: the set of pooled transactions (keyed by hash)
    mapNextTx,          \* outpoint -> hash of the pooled transaction recorded as spending it
    feeSys,             \* g_hybridFeeSystem: nCurrentBlockSize, nCurrentBlockTx, nCurrentBlockFees
    nBestHeight,        \* pindexBest->nHeight
    pblock,             \* the block assembled last
    lastAccept,         \* the last AcceptToMemoryPool call and what it returned
    \* block-space manager (hybridfee_modern.cpp)
    mempool,            \* the candidates handed to BuildBlockTemplate
    blockTemplate,      \* the template BuildBlockTemplate returned last
    current_stats,      \* BlockSpaceManager::current_stats_
    recent_blocks,      \* BlockSpaceManager::recent_blocks_, as the number of templates kept
    \* hard-fork manager (part_003)
    fActivated,
    nActivationHeight,
    activationBlockHash,
    lastForkValidation, \* the last HardForkManager::ValidateBlock call and what it returned
    nActivations,       \* how many times ActivateHardFork initialised, recorded and broadcast
    \* participation validators (part_004, pop_security.cpp)
    clock,              \* the system clock, in minutes
    lastCandidate,      \* what TryGenerateBlock returned last
    lastValidation,     \* the last block validation and what it returned
    \* participant registry (part_005)
    activeParticipants, \* ParticipationValidator::activeParticipants
    lastActive,         \* the last getActiveParticipants call and what it returned
    \* unspent outputs (main_modern.h)
    utxo,               \* the output asked about
    lastMature,         \* the last UTXO::is_mature call and what it returned
    \* peer connection (part_006)
    socket_,
    version_sent_,
    version_received_,
    send_queue_,        \* the commands of the queued messages
    receiving,          \* ReceiveLoop has not returned
    sending,            \* SendLoop has not returned
    lastFrame,          \* the frame ReceiveLoop read last and what became of it
    processed,          \* the commands ProcessMessage was called with
    steady_clock,       \* std::chrono::steady_clock::now(), in seconds
    last_recv_,
    last_send_,
    \* serialization (part_001)
    data_,              \* Buffer::data_: the bytes the buffer spans
    pos_,               \* Buffer::pos_
    lastSerialize,      \* the last CompactSize::serialize call and what it returned
    lastDeserialize,    \* the last deserialize call and what it returned
    \* lottery evaluations (part_004, part_005, part_007)
    lotteryInput,       \* the seed and key the lottery is computed for
    lotteryRuns,        \* the ComputeLottery calls made for them and what each returned
    lastLotteryVerify,  \* the last VerifyLottery call and what it returned
    vrfInput,           \* the secret key of the VRF object and the input it is given
    vrfOutput,          \* what VRF::generate returned last
    vrfVerdict,         \* the last VRF::verify call and what it returned
    selectInput,        \* the seed, height and entries selectWinner is called for
    selectRuns,         \* the selectWinner calls made for them and what each returned
    \* functions of their arguments alone (main_simplified.h, participation.cpp,
    \* part_002, part_004)
    argument,           \* what the function is called with
    returned,           \* the last call and what it returned
    \* the generation loop (participation.cpp)
    vNodes,             \* the number of connected peers
    mapWallet,          \* the confirmed participation stake of the wallet: GetMyStakeAmount()
    hashBestChain,      \* pindexBest->GetBlockHash()
    fGenerateBitcoins,
    fShutdown,
    minerAt,            \* where ParticipationMiner stands
    minerLocal,         \* what ParticipationMiner has read in this iteration
    lastProcessBlock,   \* the last ProcessBlock call of ParticipationMiner
    \* shutdown (hybridfee_modern.cpp, init_modern.h)
    shutdown_requested_, \* ThreadManager::shutdown_requested_
    running_,           \* AppContext::running_
    waitAt,             \* for each waiting thread, where it stands in wait_for_shutdown
    requestAt,          \* for each requesting thread, where it stands in request_shutdown
    \* the socket of a Node and its threads (part_006)
    disconnectAt,       \* for each thread, where it stands in Node::Disconnect
    closeCalls,         \* how many times close was called on the descriptor of the Node
    lastIo,             \* the last recv or send call: the descriptor passed and whether it was open
    \* the send queue of a Node and its threads (part_006)
    send_mutex_,        \* Node::send_mutex_: the thread that holds it
    pushAt,             \* for each pushing thread, where it stands in Node::PushMessage
    sendAt,             \* where the send thread stands in Node::SendLoop, and what it took
    wire,               \* the messages written to the socket, in order
    pushed,             \* the messages queued by PushMessage, in order
    \* database transactions (db_modern.h)
    pdb,                \* CDB::pdb: whether it points to a database
    fReadOnly,          \* CDB::fReadOnly
    vTxn,               \* CDB::vTxn
    txns,               \* the transactions of the environment: parent and state of each
    lastDb,             \* the last CDB call and what it returned
    \* checkpoints (part_002)
    checkpoints,        \* PoPCheckpoints::checkpoints
    lastCheckpointHeight \* PoPCheckpoints::lastCheckpointHeight

poolVars == <<mapTransactions, mapNextTx, feeSys, nBestHeight, pblock, lastAccept>>

tmplVars == <<mempool, blockTemplate, current_stats, recent_blocks>>

forkVars == <<fActivated, nActivationHeight, activationBlockHash, lastForkValidation,
              nActivations>>

popVars == <<clock, lastCandidate, lastValidation>>

regVars == <<activeParticipants, lastActive>>

utxoVars == <<utxo, lastMature>>

nodeVars == <<socket_, version_sent_, version_received_, send_queue_, receiving, sending,
              lastFrame, processed, steady_clock, last_recv_, last_send_>>

codecVars == <<data_, pos_, lastSerialize, lastDeserialize>>

vrfVars == <<lotteryInput, lotteryRuns, lastLotteryVerify, vrfInput, vrfOutput, vrfVerdict,
             selectInput, selectRuns>>

callVars == <<argument, returned>>

minerVars == <<vNodes, mapWallet, hashBestChain, fGenerateBitcoins, fShutdown, minerAt, minerLocal,
               lastProcessBlock>>

stopVars == <<shutdown_requested_, running_, waitAt, requestAt>>

closeVars == <<disconnectAt, closeCalls, lastIo>>

wireVars == <<send_mutex_, pushAt, sendAt, wire, pushed>>

dbVars == <<pdb, fReadOnly, vTxn, txns, lastDb>>

cpVars == <<checkpoints, lastCheckpointHeight>>

vars == <<poolVars, tmplVars, forkVars, popVars, regVars, utxoVars, nodeVars, codecVars,
          vrfVars, callVars, minerVars, stopVars, closeVars, wireVars, dbVars, cpVars>>

---------------------------------------------------------------------------
(* Helpers *)

Range(s) == {s[i] : i \in DOMAIN s}

\* All orderings of a finite set, as sequences without repetition
Perms(S) == {s \in [1..Cardinality(S) -> S] : \A i, j \in DOMAIN s : i # j => s[i] # s[j]}

\* a/b < c/d for a, c >= 0 and b, d > 0, exactly and without a product:
\* compare the integer parts, then the reciprocals of the fractional parts
RECURSIVE FracLess(_, _, _, _)
FracLess(a, b, c, d) ==
    LET qa == a \div b
        qc == c \div d
        ra == a % b
        rc == c % d
    IN  IF qa # qc THEN qa < qc
        ELSE IF rc = 0 THEN FALSE
        ELSE IF ra = 0 THEN TRUE
        ELSE FracLess(d, rc, b, ra)

---------------------------------------------------------------------------
(* Money and block parameters *)

COIN == 100000

MAX_SIZE == 33554432

DEFAULT_BLOCK_MAX_SIZE == 32000000

DEFAULT_BLOCK_PRIORITY_SIZE == (DEFAULT_BLOCK_MAX_SIZE * 5) \div 100

MIN_TX_FEE == 100

\* FREE_TX_PRIORITY = 57,600,000 base units x confirmations per byte
FREE_TX_PRIORITY == 57600

\* GetPriority assumes every input to be worth 100 GLC with 144 confirmations
AssumedInputValue == 100 * COIN

AssumedConf == 144

---------------------------------------------------------------------------
(* Transactions *)

MaxOutpoints == 2

MaxPool == 2

\* Outpoints 1..MaxOutpoints are unspent outputs of the best chain; outpoint 0
\* is an outpoint the chain does not have.
UtxoSet == 1..MaxOutpoints

Outpoints == 0..MaxOutpoints

\* The shapes a transaction takes here: the number of its inputs that spend
\* outpoints outside Outpoints (never in conflict with anything), its
\* serialized size, and the fee it pays (inputs minus outputs).
Shapes == <<
    [nOther |-> 0,    size |-> 250,      fee |-> 0],      \* small, high priority
    [nOther |-> 0,    size |-> 25000,    fee |-> 300],    \* priority exactly at the threshold
    [nOther |-> 0,    size |-> 30000,    fee |-> 100],    \* low priority
    [nOther |-> 1199, size |-> 29000000, fee |-> 0] >>    \* 1,200 inputs, 29 MB, high priority

\* A transaction: the outpoints of Outpoints it spends, and its shape
TxUniverse == [vin : {{o} : o \in Outpoints} \cup {UtxoSet}, shape : DOMAIN Shapes]

TxSize(tx) == Shapes[tx.shape].size

TxFee(tx) == Shapes[tx.shape].fee

NumInputs(tx) == Cardinality(tx.vin) + Shapes[tx.shape].nOther

\* CTransaction::GetHash: distinct transactions have distinct hashes; the number
\* gives the order in which std::map iterates over them
VinCode(v) == IF Cardinality(v) = 1 THEN CHOOSE o \in v : TRUE ELSE MaxOutpoints + 1

TxHash(tx) == VinCode(tx.vin) * Len(Shapes) + tx.shape

\* The pooled transactions in the order of their hashes
RECURSIVE InHashOrder(_)
InHashOrder(S) ==
    IF S = {} THEN <<>>
    ELSE LET first == CHOOSE t \in S : \A u \in S : TxHash(t) <= TxHash(u)
         IN  <<first>> \o InHashOrder(S \ {first})


---------------------------------------------------------------------------
(* Block reward *)

\* nSubsidy >>= k
ShiftRight(n, k) == n \div (2 ^ k)

\* GetBlockValue(nHeight, nFees) of participation.cpp, the one both block
\* assemblies call
GetBlockValue(nHeight, nFees) ==
    LET nSubsidy == ShiftRight(50 * COIN, nHeight \div 840000)
    IN  (IF nSubsidy < COIN THEN COIN ELSE nSubsidy) + nFees

---------------------------------------------------------------------------
(* HybridFeeSystem *)

IsCoinBase(tx) == FALSE   \* no transaction of TxUniverse has a null prevout

\* HybridFeeSystem::GetPriority, as the exact fraction num/den of
\* dPriority / FREE_TX_PRIORITY: the sum of nInputValue * nConf over the inputs
\* is a whole multiple of FREE_TX_PRIORITY, and the division by the size is
\* left to the comparison (FracLess)
GetPriority(tx) ==
    IF IsCoinBase(tx) THEN [num |-> 0, den |-> 1]
    ELSE [num |-> NumInputs(tx) * ((AssumedInputValue * AssumedConf) \div FREE_TX_PRIORITY),
          den |-> TxSize(tx)]

\* dPriority > FREE_TX_PRIORITY
PriorityAboveThreshold(tx) == FracLess(1, 1, GetPriority(tx).num, GetPriority(tx).den)

\* a.first > b.first of the sort in AddPriorityTransactions
PriorityGreater(a, b) ==
    FracLess(GetPriority(b).num, GetPriority(b).den, GetPriority(a).num, GetPriority(a).den)

\* HybridFeeSystem::GetTransactionFee: the placeholder returns 0
GetTransactionFee(tx) == 0

\* HybridFeeSystem::GetMinimumFee
GetMinimumFee(sys, nBytes) ==
    IF sys.nCurrentBlockSize < DEFAULT_BLOCK_PRIORITY_SIZE THEN 0
    ELSE MIN_TX_FEE * (1 + nBytes \div 1000)

\* A validation that asks for no fee however full the block is
ValidateTransactionFeeOptional(sys, tx) ==
    sys.nCurrentBlockSize >= 0 /\ TxSize(tx) > 0

\* HybridFeeSystem::ValidateTransaction (DEFAULT_BLOCK_MAX_SIZE * 90 / 100 is
\* computed here as (DEFAULT_BLOCK_MAX_SIZE / 100) * 90, the same number)
ValidateTransaction(sys, tx) ==
    IF sys.nCurrentBlockSize < DEFAULT_BLOCK_PRIORITY_SIZE /\ PriorityAboveThreshold(tx)
    THEN TRUE
    ELSE LET nMinFee == GetMinimumFee(sys, TxSize(tx))
             nTxFee  == GetTransactionFee(tx)
         IN  ~(  sys.nCurrentBlockSize > DEFAULT_BLOCK_PRIORITY_SIZE
              /\ nTxFee < nMinFee
              /\ sys.nCurrentBlockSize > (DEFAULT_BLOCK_MAX_SIZE \div 100) * 90)

\* HybridFeeSystem::AddToBlock: whether the transaction fits
AddToBlockFits(sys, tx) == sys.nCurrentBlockSize + TxSize(tx) <= DEFAULT_BLOCK_MAX_SIZE

\* HybridFeeSystem::AddToBlock: the counters afterwards
AddToBlock(sys, tx) ==
    IF ~AddToBlockFits(sys, tx) THEN sys
    ELSE [nCurrentBlockSize |-> sys.nCurrentBlockSize + TxSize(tx),
          nCurrentBlockTx   |-> sys.nCurrentBlockTx + 1,
          nCurrentBlockFees |-> sys.nCurrentBlockFees + GetTransactionFee(tx)]

\* HybridFeeSystem::OnNewBlock
OnNewBlock == [nCurrentBlockSize |-> 0, nCurrentBlockTx |-> 0, nCurrentBlockFees |-> 0]

\* The orders std::sort may leave vecPriority in: descending in priority, equal
\* priorities in any order
PrioritySorted(S) ==
    {s \in Perms(S) : \A i, j \in DOMAIN s : i < j => ~PriorityGreater(s[j], s[i])}

\* The loop of HybridFeeSystem::AddPriorityTransactions over the sorted
\* vecPriority: st is [sys, vtx]
RECURSIVE AddPriorityLoop(_, _)
AddPriorityLoop(sorted, st) ==
    IF sorted = <<>> THEN st
    ELSE IF st.sys.nCurrentBlockSize >= DEFAULT_BLOCK_PRIORITY_SIZE THEN st
    ELSE LET tx == Head(sorted)
         IN  AddPriorityLoop(Tail(sorted),
                 IF AddToBlockFits(st.sys, tx)
                 THEN [sys |-> AddToBlock(st.sys, tx), vtx |-> Append(st.vtx, tx)]
                 ELSE st)

\* The loop of HybridFeeSystem::AddFeeTransactions over the sorted vecFees
\* (DEFAULT_BLOCK_MAX_SIZE * 95 / 100 computed as (DEFAULT_BLOCK_MAX_SIZE / 100) * 95)
RECURSIVE AddFeeLoop(_, _)
AddFeeLoop(sorted, st) ==
    IF sorted = <<>> THEN st
    ELSE IF st.sys.nCurrentBlockSize >= (DEFAULT_BLOCK_MAX_SIZE \div 100) * 95 THEN st
    ELSE LET tx == Head(sorted)
         IN  AddFeeLoop(Tail(sorted),
                 IF AddToBlockFits(st.sys, tx)
                 THEN [sys |-> AddToBlock(st.sys, tx), vtx |-> Append(st.vtx, tx)]
                 ELSE st)

\* The orders std::sort may leave vecFees in: descending in fee
FeeSorted(S) ==
    {s \in Perms(S) : \A i, j \in DOMAIN s : i < j => GetTransactionFee(s[i]) >= GetTransactionFee(s[j])}


---------------------------------------------------------------------------
(* Block assembly *)

\* CTransaction::ConnectInputs as AcceptToMemoryPool calls it: every input
\* spends an output the chain has
ConnectInputsPool(tx) == tx.vin \subseteq UtxoSet

\* CTransaction::ConnectInputs as the block assembly calls it, over the test
\* pool of the block so far: every input spends an output the chain has and no
\* transaction of the block has spent
ConnectInputsMiner(tx, spent) == tx.vin \subseteq UtxoSet /\ tx.vin \cap spent = {}

\* CTransaction::IsFinal: the transactions of TxUniverse carry no lock time
IsFinal(tx) == TRUE

\* CTransaction::CheckTransaction: the transactions of TxUniverse are well
\* formed
CheckTransaction(tx) == TRUE

\* A pass that also counts the fee of a transaction it leaves out
RECURSIVE MinerPassCountsRejected(_, _)
MinerPassCountsRejected(txs, st) ==
    IF txs = <<>> THEN st
    ELSE LET tx == Head(txs)
         IN  MinerPassCountsRejected(Tail(txs),
                 IF tx \in st.added THEN st
                 ELSE IF IsCoinBase(tx) \/ ~IsFinal(tx) THEN st
                 ELSE IF ~ConnectInputsMiner(tx, st.spent)
                      THEN [st EXCEPT !.nFees = st.nFees + TxFee(tx)]
                 ELSE [added           |-> st.added \cup {tx},
                       spent           |-> st.spent \cup tx.vin,
                       vtx             |-> Append(st.vtx, tx),
                       nFees           |-> st.nFees + TxFee(tx),
                       nBlockSize      |-> st.nBlockSize + TxSize(tx),
                       fFoundSomething |-> TRUE])

\* The fees of the transactions of a block: value in less value out of each,
\* as ConnectInputs works it out
RECURSIVE BlockFees(_)
BlockFees(vtx) == IF vtx = <<>> THEN 0 ELSE TxFee(Head(vtx)) + BlockFees(Tail(vtx))

\* One pass of the for loop of ParticipationMiner over mapTransactions:
\* st is [added, spent, vtx, nFees, nBlockSize, fFoundSomething]
RECURSIVE MinerPass(_, _)
MinerPass(txs, st) ==
    IF txs = <<>> THEN st
    ELSE LET tx == Head(txs)
         IN  MinerPass(Tail(txs),
                 IF tx \in st.added THEN st
                 ELSE IF IsCoinBase(tx) \/ ~IsFinal(tx) THEN st
                 ELSE IF ~ConnectInputsMiner(tx, st.spent) THEN st
                 ELSE [added           |-> st.added \cup {tx},
                       spent           |-> st.spent \cup tx.vin,
                       vtx             |-> Append(st.vtx, tx),
                       nFees           |-> st.nFees + TxFee(tx),
                       nBlockSize      |-> st.nBlockSize + TxSize(tx),
                       fFoundSomething |-> TRUE])

\* The while loop of ParticipationMiner: passes until one adds nothing or
\* half of MAX_SIZE is reached
RECURSIVE MinerLoop(_, _)
MinerLoop(txs, st) ==
    IF st.fFoundSomething /\ st.nBlockSize < MAX_SIZE \div 2
    THEN MinerLoop(txs, MinerPass(txs, [st EXCEPT !.fFoundSomething = FALSE]))
    ELSE st

\* The collection of ParticipationMiner: the transactions after the coinbase
\* and nFees
MinerCollect(pool) ==
    MinerLoop(InHashOrder(pool),
              [added |-> {}, spent |-> {}, vtx |-> <<>>, nFees |-> 0,
               nBlockSize |-> 1000, fFoundSomething |-> TRUE])

NoBlock == [by |-> "none", nHeight |-> 0, vtx |-> <<>>, nValue |-> 0]

NoAccept == [called |-> FALSE]

\* An acceptance that does not look whether the pool has the transaction
AcceptResultUnlooked(tx, fCheckInputs) ==
    IF ~CheckTransaction(tx) THEN FALSE
    ELSE IF ~ValidateTransaction(feeSys, tx) THEN FALSE
    ELSE IF fCheckInputs /\ ~ConnectInputsPool(tx) THEN FALSE
    ELSE TRUE

\* AcceptToMemoryPool(txdb, tx, fCheckInputs): what it returns
AcceptResult(tx, fCheckInputs) ==
    IF ~CheckTransaction(tx) THEN FALSE
    ELSE IF tx \in mapTransactions THEN FALSE
    ELSE IF ~ValidateTransaction(feeSys, tx) THEN FALSE
    ELSE IF fCheckInputs /\ ~ConnectInputsPool(tx) THEN FALSE
    ELSE TRUE

\* mapNextTx after the loop over tx.vin
RecordSpends(next, tx) ==
    [o \in (DOMAIN next) \cup tx.vin |-> IF o \in tx.vin THEN TxHash(tx) ELSE next[o]]

AcceptToMemoryPool(tx, fCheckInputs) ==
    /\ Cardinality(mapTransactions) < MaxPool
    /\ lastAccept' = [called |-> TRUE, tx |-> tx,
                      nCurrentBlockSize |-> feeSys.nCurrentBlockSize,
                      result |-> AcceptResult(tx, fCheckInputs),
                      feeOk |-> ValidateTransaction(feeSys, tx)]
    /\ IF AcceptResult(tx, fCheckInputs)
       THEN /\ mapTransactions' = mapTransactions \cup {tx}
            /\ mapNextTx' = RecordSpends(mapNextTx, tx)
       ELSE UNCHANGED <<mapTransactions, mapNextTx>>
    /\ UNCHANGED <<feeSys, nBestHeight, pblock>>
    /\ UNCHANGED <<tmplVars, forkVars, popVars, regVars, utxoVars, nodeVars, codecVars, vrfVars, callVars, minerVars, stopVars, closeVars, wireVars, dbVars, cpVars>>

\* CreateNewBlock: the free phase over the pooled transactions whose priority
\* is above the threshold, then the fee phase over those that pay a fee
CreateNewBlock ==
    \E sortedFree \in PrioritySorted({tx \in mapTransactions : PriorityAboveThreshold(tx)}) :
    \E sortedFee \in FeeSorted({tx \in mapTransactions : GetTransactionFee(tx) > 0}) :
        LET nHeight   == nBestHeight + 1
            afterFree == AddPriorityLoop(sortedFree, [sys |-> OnNewBlock, vtx |-> <<>>])
            afterFee  == AddFeeLoop(sortedFee, afterFree)
        IN  /\ feeSys' = afterFee.sys
            /\ pblock' = [by |-> "CreateNewBlock", nHeight |-> nHeight,
                          vtx |-> afterFee.vtx,
                          freeTx |-> afterFree.vtx,
                          nValue |-> GetBlockValue(nHeight, afterFee.sys.nCurrentBlockFees)]
            /\ UNCHANGED <<mapTransactions, mapNextTx, nBestHeight, lastAccept>>
            /\ UNCHANGED <<tmplVars, forkVars, popVars, regVars, utxoVars, nodeVars, codecVars, vrfVars, callVars, minerVars, stopVars, closeVars, wireVars, dbVars, cpVars>>

\* ParticipationMiner: the iteration in which the lottery was won, up to the
\* coinbase value
ParticipationMiner ==
    LET nHeight   == nBestHeight + 1
        collected == MinerCollect(mapTransactions)
    IN  /\ pblock' = [by |-> "ParticipationMiner", nHeight |-> nHeight,
                      vtx |-> collected.vtx,
                      nValue |-> GetBlockValue(nHeight, collected.nFees)]
        /\ UNCHANGED <<mapTransactions, mapNextTx, feeSys, nBestHeight, lastAccept>>
        /\ UNCHANGED <<tmplVars, forkVars, popVars, regVars, utxoVars, nodeVars, codecVars, vrfVars, callVars, minerVars, stopVars, closeVars, wireVars, dbVars, cpVars>>

\* The heights of the best block: the next block is the first of the second
\* subsidy period, or the first whose halved subsidy falls below the floor
BestHeights == {839999, 5039999}

PoolStart ==
    /\ mapTransactions = {}
    /\ mapNextTx = <<>>
    /\ feeSys = OnNewBlock
    /\ nBestHeight \in BestHeights
    /\ pblock = NoBlock
    /\ lastAccept = NoAccept

PoolIdle ==
    /\ mapTransactions = {}
    /\ mapNextTx = <<>>
    /\ feeSys = OnNewBlock
    /\ nBestHeight = 0
    /\ pblock = NoBlock
    /\ lastAccept = NoAccept

---------------------------------------------------------------------------
(* BlockSpaceManager *)

MAX_BLOCK_SIZE == 32000000

FREE_ZONE_SIZE == (MAX_BLOCK_SIZE * 5) \div 100

\* BASE_FEE_RATE, a fee rate: in base units per byte
BASE_FEE_RATE == 1000

MaxCandidates == 3

MaxBuilds == 2

\* What recent_blocks_ keeps at most
RecentBlocksKept == 144

\* The priority information, the fee (in units of 1,000 base units) and the
\* size a candidate comes with.  priority_info is a field the caller fills in,
\* so a candidate may carry any score with any flag.
CandKinds == <<
    [qualifies_for_free |-> TRUE,  priority_score |-> 2, fee_paid |-> 0,   size_bytes |-> 600000],
    [qualifies_for_free |-> TRUE,  priority_score |-> 2, fee_paid |-> 100, size_bytes |-> 1000000],
    [qualifies_for_free |-> TRUE,  priority_score |-> 1, fee_paid |-> 0,   size_bytes |-> 1000001],
    [qualifies_for_free |-> FALSE, priority_score |-> 3, fee_paid |-> 200, size_bytes |-> 1000000] >>

CandHashes == {1, 2}

\* BlockSpaceManager::TransactionCandidate; hash stands for tx.GetHash(), and
\* the transaction with the smaller hash was received first
TransactionCandidate(hash, kind) ==
    [hash          |-> hash,
     priority_info |-> [priority_score     |-> CandKinds[kind].priority_score,
                        qualifies_for_free |-> CandKinds[kind].qualifies_for_free],
     fee_paid      |-> CandKinds[kind].fee_paid,
     received_time |-> hash,
     size_bytes    |-> CandKinds[kind].size_bytes]

CandUniverse ==
    {TransactionCandidate(h, k) : h \in CandHashes, k \in DOMAIN CandKinds}

\* The vectors a caller may pass as the mempool
Mempools == UNION {[1..n -> CandUniverse] : n \in 0..MaxCandidates}

\* The orders a sort may leave a vector of n elements in, as rearrangements
\* of its positions
Rearrangements(n) == Perms(1..n)

\* The total of size_bytes over a vector of candidates (std::accumulate)
RECURSIVE SizeOf(_)
SizeOf(txs) == IF txs = <<>> THEN 0 ELSE Head(txs).size_bytes + SizeOf(Tail(txs))

RECURSIVE FeesOf(_)
FeesOf(txs) == IF txs = <<>> THEN 0 ELSE Head(txs).fee_paid + FeesOf(Tail(txs))

\* A fill of the free zone that passes over a candidate that does not fit and
\* takes it all the same
RECURSIVE FillFreeZoneUnchecked(_, _, _)
FillFreeZoneUnchecked(free_eligible, selected, used_space) ==
    IF free_eligible = <<>> THEN selected
    ELSE LET candidate == Head(free_eligible)
         IN  FillFreeZoneUnchecked(Tail(free_eligible), Append(selected, candidate),
                                   used_space + candidate.size_bytes)

\* The fill loop of SelectFreeTransactions: stops at the first candidate that
\* does not fit
RECURSIVE FillFreeZone(_, _, _)
FillFreeZone(free_eligible, selected, used_space) ==
    IF free_eligible = <<>> THEN selected
    ELSE LET candidate == Head(free_eligible)
         IN  IF used_space + candidate.size_bytes <= FREE_ZONE_SIZE
             THEN FillFreeZone(Tail(free_eligible), Append(selected, candidate),
                               used_space + candidate.size_bytes)
             ELSE selected

QualifiesForFree(candidate) == candidate.priority_info.qualifies_for_free

HigherPriority(a, b) == a.priority_info.priority_score > b.priority_info.priority_score

\* The orders std::ranges::sort may leave free_eligible in: no candidate comes
\* after one it has a higher priority than; equal priorities come in any order
SortedByPriority(s) ==
    {[i \in DOMAIN s |-> s[p[i]]] :
        p \in {q \in Rearrangements(Len(s)) :
                  \A i, j \in DOMAIN s : i < j => ~HigherPriority(s[q[j]], s[q[i]])}}

\* BlockSpaceManager::SelectFreeTransactions, for each order the sort may give
\* (std::ranges::copy_if keeps the order of the candidates)
SelectFreeTransactions(candidates) ==
    {FillFreeZone(free_eligible, <<>>, 0) :
        free_eligible \in SortedByPriority(SelectSeq(candidates, QualifiesForFree))}

\* fee_paid * 1000 / size_bytes, in base units per 1,000 bytes
FeeRate(c) == (c.fee_paid * 1000 * 1000) \div c.size_bytes

PaysFee(candidate) == candidate.fee_paid > 0

BetterFee(a, b) ==
    IF FeeRate(a) # FeeRate(b) THEN FeeRate(a) > FeeRate(b)
    ELSE a.received_time < b.received_time

\* The fill loop of SelectFeeTransactions: passes over a candidate that does
\* not fit and goes on
RECURSIVE FillFeeZone(_, _, _, _)
FillFeeZone(fee_paying, selected, used_space, available_space) ==
    IF fee_paying = <<>> THEN selected
    ELSE LET candidate == Head(fee_paying)
         IN  IF used_space + candidate.size_bytes <= available_space
             THEN FillFeeZone(Tail(fee_paying), Append(selected, candidate),
                              used_space + candidate.size_bytes, available_space)
             ELSE FillFeeZone(Tail(fee_paying), selected, used_space, available_space)

\* The orders std::ranges::sort may leave fee_paying in
SortedByFee(s) ==
    {[i \in DOMAIN s |-> s[p[i]]] :
        p \in {q \in Rearrangements(Len(s)) :
                  \A i, j \in DOMAIN s : i < j => ~BetterFee(s[q[j]], s[q[i]])}}

\* BlockSpaceManager::SelectFeeTransactions, for each order the sort may give
SelectFeeTransactions(candidates, available_space) ==
    {FillFeeZone(fee_paying, <<>>, 0, available_space) :
        fee_paying \in SortedByFee(SelectSeq(candidates, PaysFee))}

\* BlockSpaceManager::CalculateDynamicFeeRate
CalculateDynamicFeeRate(congestion_level) ==
    IF congestion_level < 50 THEN BASE_FEE_RATE
    ELSE IF congestion_level < 80 THEN BASE_FEE_RATE * 2
    ELSE IF congestion_level < 95 THEN BASE_FEE_RATE * 5
    ELSE BASE_FEE_RATE * 10

\* s with x put before the first element greater than x
RECURSIVE InsertAscending(_, _)
InsertAscending(s, x) ==
    IF s = <<>> THEN <<x>>
    ELSE IF x <= Head(s) THEN <<x>> \o s
    ELSE <<Head(s)>> \o InsertAscending(Tail(s), x)

\* std::ranges::sort of a vector of numbers
RECURSIVE SortAscending(_)
SortAscending(s) ==
    IF s = <<>> THEN <<>> ELSE InsertAscending(SortAscending(Tail(s)), Head(s))

\* BlockSpaceManager::UpdateMarketStats: current_stats_ afterwards (the vector
\* positions of the code count from 0, those of a sequence from 1)
UpdateMarketStats(stats, completed_block) ==
    LET fees      == completed_block.fee_transactions
        fee_rates == SortAscending([i \in DOMAIN fees |-> FeeRate(fees[i])])
        n         == Len(fee_rates)
        median    == IF n = 0 THEN stats.median_fee_last_block ELSE fee_rates[n \div 2 + 1]
        pressure  == completed_block.free_zone_utilization_percent
    IN  [current_min_fee_rate       |-> CalculateDynamicFeeRate(pressure),
         free_zone_pressure_percent |-> pressure,
         median_fee_last_block      |-> median,
         fee_percentiles            |->
             IF n >= 4
             THEN <<fee_rates[n \div 4 + 1], median, fee_rates[(n * 3) \div 4 + 1],
                    fee_rates[(n * 95) \div 100 + 1]>>
             ELSE stats.fee_percentiles]

\* The template BuildBlockTemplate makes of the two zones
MakeTemplate(free_transactions, fee_transactions) ==
    LET free_zone_used == SizeOf(free_transactions)
        total_size     == free_zone_used + SizeOf(fee_transactions)
    IN  [free_transactions             |-> free_transactions,
         fee_transactions              |-> fee_transactions,
         total_size_bytes              |-> total_size,
         total_fees_collected          |-> FeesOf(fee_transactions),
         free_zone_utilization_percent |-> (free_zone_used * 100) \div FREE_ZONE_SIZE,
         total_utilization_percent     |-> (total_size * 100) \div MAX_BLOCK_SIZE]

\* The candidates whose hash no transaction of the free zone has
RemainingCandidates(pool, free_transactions) ==
    LET NotInFreeZone(candidate) ==
            ~\E i \in DOMAIN free_transactions : free_transactions[i].hash = candidate.hash
    IN  SelectSeq(pool, NotInFreeZone)

NoTemplate == [built |-> FALSE]

\* BlockSpaceManager::BuildBlockTemplate(mempool)
BuildBlockTemplate ==
    /\ recent_blocks < MaxBuilds
    /\ \E free_transactions \in SelectFreeTransactions(mempool) :
       \E fee_transactions \in
              SelectFeeTransactions(RemainingCandidates(mempool, free_transactions),
                                    MAX_BLOCK_SIZE - SizeOf(free_transactions)) :
          LET template_block == MakeTemplate(free_transactions, fee_transactions)
          IN  /\ blockTemplate' = [built |-> TRUE, block |-> template_block]
              /\ current_stats' = UpdateMarketStats(current_stats, template_block)
              /\ recent_blocks' = IF recent_blocks + 1 > RecentBlocksKept
                                  THEN RecentBlocksKept ELSE recent_blocks + 1
    /\ UNCHANGED mempool
    /\ UNCHANGED <<poolVars, forkVars, popVars, regVars, utxoVars, nodeVars, codecVars, vrfVars, callVars, minerVars, stopVars, closeVars, wireVars, dbVars, cpVars>>

\* BlockSpaceManager::BlockSpaceManager()
InitialStats ==
    [current_min_fee_rate       |-> BASE_FEE_RATE,
     free_zone_pressure_percent |-> 0,
     median_fee_last_block      |-> 0,
     fee_percentiles            |-> <<0, 0, 0, 0>>]

TmplStart ==
    /\ mempool \in Mempools
    /\ blockTemplate = NoTemplate
    /\ current_stats = InitialStats
    /\ recent_blocks = 0

TmplIdle ==
    /\ mempool = <<>>
    /\ blockTemplate = NoTemplate
    /\ current_stats = InitialStats
    /\ recent_blocks = 0

---------------------------------------------------------------------------
(* HardForkManager *)

HARD_FORK_HEIGHT == 3500000

MINIMUM_STAKE == 100 * COIN

STAKE_MATURITY == 1440

IsProofOfParticipationActive(nHeight) == nHeight >= HARD_FORK_HEIGHT

\* The heights blocks come with: around the fork height
ForkHeights == {HARD_FORK_HEIGHT - 1, HARD_FORK_HEIGHT, HARD_FORK_HEIGHT + 1}

\* A block as HardForkManager sees it: its hash and the work required of it
\* (GetHash() and GetWorkRequired(), as numbers), and the participation proof
\* of its coinbase: none that verifies, one that verifies and loses the
\* lottery, or one that verifies and wins it
BlockHashes == {1, 2, 3}

WorkRequired == {2}

VrfProofs == {"none", "loses", "wins"}

ForkBlocks ==
    [hash : BlockHashes, workRequired : WorkRequired, vrf : VrfProofs]

\* HardForkManager::GetStakeAmount: the placeholder
HardForkManager_GetStakeAmount(stakeTx) == 100 * COIN

\* HardForkManager::GetStakeAge: the placeholder
GetStakeAge(stakeTx, nCurrentHeight) == STAKE_MATURITY + 1

\* HardForkManager::VerifyLotteryWin: the placeholder
VerifyLotteryWin(block, nHeight) == TRUE

\* HardForkManager::ValidatePoWBlock
ValidatePoWBlock(block, nHeight) == ~(block.hash > block.workRequired)

\* HardForkManager::ValidatePoPBlock
ValidatePoPBlock(block, nHeight) ==
    IF HardForkManager_GetStakeAmount(block) < MINIMUM_STAKE THEN FALSE
    ELSE IF GetStakeAge(block, nHeight) < STAKE_MATURITY THEN FALSE
    ELSE IF ~VerifyLotteryWin(block, nHeight) THEN FALSE
    ELSE TRUE

\* A validation that goes by the activation flag instead of the height
ValidateBlockByFlag(block, nHeight) ==
    IF fActivated
    THEN [rules |-> "PoP", result |-> ValidatePoPBlock(block, nHeight)]
    ELSE [rules |-> "PoW", result |-> ValidatePoWBlock(block, nHeight)]

\* HardForkManager::ValidateBlock: the rules applied and what they return
HardForkManager_ValidateBlock(block, nHeight) ==
    IF IsProofOfParticipationActive(nHeight)
    THEN [rules |-> "PoP", result |-> ValidatePoPBlock(block, nHeight)]
    ELSE [rules |-> "PoW", result |-> ValidatePoWBlock(block, nHeight)]

\* HardForkManager::ActivateHardFork: the three fields afterwards, and one
\* more run of InitializeParticipation, WriteHardForkActivation and
\* BroadcastHardForkActivation
ActivateHardFork(nHeight, blockHash) ==
    IF fActivated
    THEN UNCHANGED <<fActivated, nActivationHeight, activationBlockHash, nActivations>>
    ELSE /\ fActivated' = TRUE
         /\ nActivationHeight' = nHeight
         /\ activationBlockHash' = blockHash
         /\ nActivations' = nActivations + 1

NoForkValidation == [called |-> FALSE]

\* What a call of ValidateBlock leaves to look at; flag is fActivated at the call
ForkValidation(block, nHeight, flag) ==
    [called |-> TRUE, block |-> block, nHeight |-> nHeight, fActivated |-> flag,
     rules  |-> HardForkManager_ValidateBlock(block, nHeight).rules,
     result |-> HardForkManager_ValidateBlock(block, nHeight).result]

\* HardForkManager::CheckActivation(nHeight, blockHash)
CheckActivation(nHeight, blockHash) ==
    /\ IF fActivated THEN UNCHANGED <<fActivated, nActivationHeight, activationBlockHash, nActivations>>
       ELSE IF nHeight >= HARD_FORK_HEIGHT THEN ActivateHardFork(nHeight, blockHash)
       ELSE UNCHANGED <<fActivated, nActivationHeight, activationBlockHash, nActivations>>
    /\ UNCHANGED lastForkValidation
    /\ UNCHANGED <<poolVars, tmplVars, popVars, regVars, utxoVars, nodeVars, codecVars, vrfVars, callVars, minerVars, stopVars, closeVars, wireVars, dbVars, cpVars>>

\* A ProcessHardFork that activates at every block from the fork height on
ProcessHardForkAgain(block, nHeight) ==
    /\ IF nHeight >= HARD_FORK_HEIGHT
       THEN /\ fActivated' = TRUE
            /\ nActivationHeight' = nHeight
            /\ activationBlockHash' = block.hash
            /\ nActivations' = nActivations + 1
       ELSE UNCHANGED <<fActivated, nActivationHeight, activationBlockHash, nActivations>>
    /\ lastForkValidation' = ForkValidation(block, nHeight, fActivated')
    /\ UNCHANGED <<poolVars, tmplVars, popVars, regVars, utxoVars, nodeVars, codecVars, vrfVars, callVars, minerVars, stopVars, closeVars, wireVars, dbVars, cpVars>>

\* ProcessHardFork(block, nHeight)
ProcessHardFork(block, nHeight) ==
    /\ IF ~fActivated /\ nHeight >= HARD_FORK_HEIGHT
       THEN ActivateHardFork(nHeight, block.hash)
       ELSE UNCHANGED <<fActivated, nActivationHeight, activationBlockHash, nActivations>>
    /\ lastForkValidation' = ForkValidation(block, nHeight, fActivated')
    /\ UNCHANGED <<poolVars, tmplVars, popVars, regVars, utxoVars, nodeVars, codecVars, vrfVars, callVars, minerVars, stopVars, closeVars, wireVars, dbVars, cpVars>>

ForkStart ==
    /\ fActivated = FALSE
    /\ nActivationHeight = 0
    /\ activationBlockHash = 0
    /\ lastForkValidation = NoForkValidation
    /\ nActivations = 0

ForkIdle == ForkStart

---------------------------------------------------------------------------
(* ProofOfParticipation and PoPSecurity *)

MaxClock == 2

\* The values a hash takes: 0 .. HashSpace - 1
HashSpace == 4

\* target_threshold = 1.0 / 1000.0
TargetThresholdDen == 1000

\* std::chrono::minutes(5)
BlockTimeWindow == 5

\* 2 * 60 * 60 and 24 * 60 * 60 seconds, in minutes
MaxFutureMinutes == 120

MaxPastMinutes == 1440

pop_MINIMUM_STAKE == 1000 * COIN

PublicKeys == {1, 2}

\* GenerateBlockSeed: byte i of the seed is now >> (i * 8).  The clock's count
\* has 64 bits and the seed 32 bytes, so from byte 8 on the shift is by 64 bits
\* or more and the language leaves its result open: the seed is the clock and
\* whatever those bytes turn out to be.
SeedHighBytes == {0, 1}

GenerateBlockSeed == {[low |-> clock, high |-> u] : u \in SeedHighBytes}

\* VerifiableRandomFunction::HashToTarget: SHA-256 over seed and key, as a
\* mixing of the two into the hash space
HashToTarget(seed, key) == (seed.low * 5 + seed.high * 3 + key) % HashSpace

\* VerifiableRandomFunction::IsWinningHash with target_threshold = 1 / 1000:
\* hash_value / max < 1 / 1000, max the largest hash value
IsWinningHash(hash) == hash * TargetThresholdDen < HashSpace - 1

\* state_.total_participating_stake, whatever the node was made with
TotalStakes == {0, pop_MINIMUM_STAKE, 10 * pop_MINIMUM_STAKE}

\* A lottery in which a hash wins more easily the smaller the total stake is
ComputeLotteryByStake(block_seed, participant_key, total_participating_stake) ==
    [hash        |-> HashToTarget(block_seed, participant_key),
     is_winner   |-> \/ IsWinningHash(HashToTarget(block_seed, participant_key))
                     \/ total_participating_stake < pop_MINIMUM_STAKE,
     probability |-> [num |-> 1, den |-> TargetThresholdDen]]

\* VerifiableRandomFunction::ComputeLottery; probability is target_threshold,
\* the fraction 1 / 1000
ComputeLottery(block_seed, participant_key, total_participating_stake) ==
    [hash        |-> HashToTarget(block_seed, participant_key),
     is_winner   |-> IsWinningHash(HashToTarget(block_seed, participant_key)),
     probability |-> [num |-> 1, den |-> TargetThresholdDen]]

\* VerifiableRandomFunction::VerifyLottery
VerifyLottery(result, block_seed, participant_key) ==
    result.hash = HashToTarget(block_seed, participant_key)

\* ProofOfParticipation::IsBlockTimeValid
IsBlockTimeValid(block_time) ==
    (IF block_time >= clock THEN block_time - clock ELSE clock - block_time) < BlockTimeWindow

\* How far from the clock the time of a candidate or of a block is, in minutes
CandidateTimeOffsets == {0 - BlockTimeWindow, 1 - BlockTimeWindow, -1, 0,
                         BlockTimeWindow - 1, BlockTimeWindow}

BlockTimeOffsets == {0 - MaxPastMinutes - 1, 0 - MaxPastMinutes, 0,
                     MaxFutureMinutes, MaxFutureMinutes + 1}

\* How far from the clock the time of the parent of a block is, in minutes:
\* a parent 25 hours old, one of now, and one an hour ahead
ParentTimeOffsets == {0 - MaxPastMinutes - 60, 0, 60}

LotteryResults ==
    [hash : 0..(HashSpace - 1), is_winner : BOOLEAN,
     probability : {[num |-> 1, den |-> TargetThresholdDen]}]

NoCandidate == [made |-> "none"]

NoValidation == [by |-> "none"]

\* ProofOfParticipation::TryGenerateBlock(local_keys)
TryGenerateBlock(public_key) ==
    /\ \E seed \in GenerateBlockSeed, total_participating_stake \in TotalStakes :
          LET lottery == ComputeLottery(seed, public_key, total_participating_stake)
          IN  lastCandidate' =
                  IF ~lottery.is_winner THEN [made |-> "InvalidVRF"]
                  ELSE [made |-> "candidate", timestamp |-> clock,
                        producer_key |-> public_key, lottery_proof |-> lottery]
    /\ UNCHANGED <<clock, lastValidation>>
    /\ UNCHANGED <<poolVars, tmplVars, forkVars, regVars, utxoVars, nodeVars, codecVars, vrfVars, callVars, minerVars, stopVars, closeVars, wireVars, dbVars, cpVars>>

\* ProofOfParticipation::ValidateBlock: what it returns under the seed drawn
ValidateCandidate(candidate, seed) ==
    IF ~VerifyLottery(candidate.lottery_proof, seed, candidate.producer_key) THEN "InvalidVRF"
    ELSE IF ~IsBlockTimeValid(candidate.timestamp) THEN "false"
    ELSE "true"

\* ProofOfParticipation::ValidateBlock(candidate)
ProofOfParticipation_ValidateBlock(candidate) ==
    /\ \E seed \in GenerateBlockSeed :
          lastValidation' = [by |-> "ProofOfParticipation", candidate |-> candidate,
                             at |-> clock, seed |-> seed,
                             result |-> ValidateCandidate(candidate, seed)]
    /\ UNCHANGED <<clock, lastCandidate>>
    /\ UNCHANGED <<poolVars, tmplVars, forkVars, regVars, utxoVars, nodeVars, codecVars, vrfVars, callVars, minerVars, stopVars, closeVars, wireVars, dbVars, cpVars>>

\* PoPSecurity::GetStakeAmount: the placeholder
PoPSecurity_GetStakeAmount(staker) == 10000 * COIN

\* PoPSecurity::ValidateStake
ValidateStake(block) == ~(PoPSecurity_GetStakeAmount(1) < pop_MINIMUM_STAKE)

\* PoPSecurity::ValidateLotteryWin: the placeholder
ValidateLotteryWin(block, nHeight) == TRUE

\* PoPSecurity::ValidateBlockTiming, GetTime() read off the clock
ValidateBlockTiming(block) ==
    IF block.nTime > clock + MaxFutureMinutes THEN FALSE
    ELSE IF block.nTime < clock - MaxPastMinutes THEN FALSE
    ELSE TRUE

\* PoPSecurity::ValidateTransactions: CheckTransaction of every transaction
ValidateTransactions(block) == block.txOk

\* PoPSecurity::ValidateBlock: what it returns
SecurityValidate(block, nHeight) ==
    IF ~ValidateStake(block) THEN FALSE
    ELSE IF ~ValidateLotteryWin(block, nHeight) THEN FALSE
    ELSE IF ~ValidateBlockTiming(block) THEN FALSE
    ELSE IF ~ValidateTransactions(block) THEN FALSE
    ELSE TRUE

\* PoPSecurity::ValidateBlock(block, nHeight)
PoPSecurity_ValidateBlock(block, nHeight) ==
    /\ lastValidation' = [by |-> "PoPSecurity", block |-> block, nHeight |-> nHeight,
                          at |-> clock, result |-> SecurityValidate(block, nHeight)]
    /\ UNCHANGED <<clock, lastCandidate>>
    /\ UNCHANGED <<poolVars, tmplVars, forkVars, regVars, utxoVars, nodeVars, codecVars, vrfVars, callVars, minerVars, stopVars, closeVars, wireVars, dbVars, cpVars>>

\* The clock moves on
Tick ==
    /\ clock < MaxClock
    /\ clock' = clock + 1
    /\ UNCHANGED <<lastCandidate, lastValidation>>
    /\ UNCHANGED <<poolVars, tmplVars, forkVars, regVars, utxoVars, nodeVars, codecVars, vrfVars, callVars, minerVars, stopVars, closeVars, wireVars, dbVars, cpVars>>

PopStart ==
    /\ clock = 0
    /\ lastCandidate = NoCandidate
    /\ lastValidation = NoValidation

PopIdle == PopStart

---------------------------------------------------------------------------
(* ParticipationValidator: the participant registry *)

MaxParticipants == 2

MaxTxid == 2

\* The entries registered here: a stake of exactly MINIMUM_STAKE or of one unit
\* less, locked at height 0 or 1
ParticipationEntries ==
    [txid : 1..MaxTxid, amount : {MINIMUM_STAKE - 1, MINIMUM_STAKE}, address : {1},
     height : {0, 1}]

\* The heights getActiveParticipants is asked about
QueryHeights == {STAKE_MATURITY - 1, STAKE_MATURITY, STAKE_MATURITY + 1}

\* ParticipationEntry::isMatured
isMatured(p, currentHeight) == (currentHeight - p.height) >= STAKE_MATURITY

\* ParticipationValidator::getActiveParticipants: what it returns
ActiveParticipants(registry, currentHeight) ==
    LET Matured(p) == isMatured(p, currentHeight)
    IN  SelectSeq(registry, Matured)

\* Hash(seed, blockHeight).Get64(), as a mixing of the two
SelectionHash(seed, blockHeight) == seed * 7 + blockHeight

\* VRF::selectWinner (the vector positions of the code count from 0)
selectWinner(seed, participants, blockHeight) ==
    IF participants = <<>> THEN [has_value |-> FALSE]
    ELSE [has_value |-> TRUE,
          value     |-> participants[(SelectionHash(seed, blockHeight) % Len(participants)) + 1]]

NoActive == [called |-> FALSE]

\* ParticipationValidator::addParticipant(entry)
addParticipant(entry) ==
    /\ Len(activeParticipants) < MaxParticipants
    /\ activeParticipants' = Append(activeParticipants, entry)
    /\ UNCHANGED lastActive
    /\ UNCHANGED <<poolVars, tmplVars, forkVars, popVars, utxoVars, nodeVars, codecVars, vrfVars, callVars, minerVars, stopVars, closeVars, wireVars, dbVars, cpVars>>

\* ParticipationValidator::removeParticipant(txid)
removeParticipant(txid) ==
    /\ LET Kept(p) == p.txid # txid
       IN  activeParticipants' = SelectSeq(activeParticipants, Kept)
    /\ UNCHANGED lastActive
    /\ UNCHANGED <<poolVars, tmplVars, forkVars, popVars, utxoVars, nodeVars, codecVars, vrfVars, callVars, minerVars, stopVars, closeVars, wireVars, dbVars, cpVars>>

\* ParticipationValidator::getActiveParticipants(currentHeight)
getActiveParticipants(currentHeight) ==
    /\ lastActive' = [called |-> TRUE, query |-> "getActiveParticipants",
                      currentHeight |-> currentHeight, registry |-> activeParticipants,
                      matured |-> ActiveParticipants(activeParticipants, currentHeight)]
    /\ UNCHANGED activeParticipants
    /\ UNCHANGED <<poolVars, tmplVars, forkVars, popVars, utxoVars, nodeVars, codecVars, vrfVars, callVars, minerVars, stopVars, closeVars, wireVars, dbVars, cpVars>>

\* ParticipationValidator::checkParticipation(myAddress, previousBlockHash,
\* currentHeight)
checkParticipation(myAddress, previousBlockHash, currentHeight) ==
    /\ LET participants == ActiveParticipants(activeParticipants, currentHeight)
           winner       == selectWinner(previousBlockHash, participants, currentHeight)
       IN  lastActive' = [called |-> TRUE, query |-> "checkParticipation",
                          currentHeight |-> currentHeight, registry |-> activeParticipants,
                          matured |-> participants, winner |-> winner,
                          result |-> IF participants = <<>> THEN FALSE
                                     ELSE winner.has_value /\ winner.value.address = myAddress]
    /\ UNCHANGED activeParticipants
    /\ UNCHANGED <<poolVars, tmplVars, forkVars, popVars, utxoVars, nodeVars, codecVars, vrfVars, callVars, minerVars, stopVars, closeVars, wireVars, dbVars, cpVars>>

RegStart ==
    /\ activeParticipants = <<>>
    /\ lastActive = NoActive

RegIdle == RegStart

---------------------------------------------------------------------------
(* UTXO *)

COINBASE_MATURITY == 100

MaxUtxoHeight == 3

\* The largest height asked about here
FarHeight == 2000000000

\* The heights outputs were created at
UtxoHeights == (0..MaxUtxoHeight) \cup {FarHeight}

\* The heights is_mature is asked about: around the maturity of each output
CurrentHeights ==
    (0..MaxUtxoHeight) \cup {h + d : h \in UtxoHeights, d \in {COINBASE_MATURITY - 1, COINBASE_MATURITY}}

\* A coinbase output counts as mature one block later
is_mature_after(u, current_height) ==
    ~u.is_coinbase \/ (current_height > u.height + COINBASE_MATURITY)

\* UTXO::is_mature: height + COINBASE_MATURITY is a sum of 64-bit amounts and
\* does not wrap for any 32-bit height
is_mature(u, current_height) ==
    ~u.is_coinbase \/ (current_height >= u.height + COINBASE_MATURITY)

NoMature == [called |-> FALSE]

\* utxo.is_mature(current_height)
IsMatureCall(current_height) ==
    /\ lastMature' = [called |-> TRUE, current_height |-> current_height,
                      result |-> is_mature(utxo, current_height)]
    /\ UNCHANGED utxo
    /\ UNCHANGED <<poolVars, tmplVars, forkVars, popVars, regVars, nodeVars, codecVars, vrfVars, callVars, minerVars, stopVars, closeVars, wireVars, dbVars, cpVars>>

UtxoStart ==
    /\ utxo \in [height : UtxoHeights, is_coinbase : BOOLEAN]
    /\ lastMature = NoMature

UtxoIdle ==
    /\ utxo = [height |-> 0, is_coinbase |-> FALSE]
    /\ lastMature = NoMature

---------------------------------------------------------------------------
(* Node: the peer connection *)

MESSAGE_START == <<249, 190, 180, 217>>

MAX_MESSAGE_SIZE == 1000000

\* Node::PING_INTERVAL and Node::TIMEOUT, in seconds
PING_INTERVAL == 30

TIMEOUT == 90

MaxQueue == 2

\* How many times SendLoop's wait for a message is followed to give up
MaxPingIntervals == 4

\* The values a checksum takes: 0 .. ChecksumSpace - 1
ChecksumSpace == 3

\* The descriptor of an open socket
OpenSocket == 3

Commands == {"version", "verack", "ping"}

\* A frame off the wire: the header fields and the payload, which is the
\* payload_size bytes after the header; body tells payloads of one size apart
Frames ==
    [magic        : {MESSAGE_START, <<0, 0, 0, 0>>},
     command      : Commands,
     payload_size : {0, MAX_MESSAGE_SIZE, MAX_MESSAGE_SIZE + 1},
     checksum     : 0..(ChecksumSpace - 1),
     body         : {0, 1}]

\* The first four bytes of crypto::Hash(payload), as a mixing of the payload's
\* length and content into the checksum space
PayloadChecksum(payload_size, body) == (payload_size + body) % ChecksumSpace

\* A header check that looks at the magic only
IsValidMagicOnly(header) == header.magic = MESSAGE_START

\* MessageHeader::IsValid
IsValid(header) == header.magic = MESSAGE_START /\ header.payload_size <= MAX_MESSAGE_SIZE

\* MessageHeader::VerifyChecksum(hash)
VerifyChecksum(header, hash) == hash = header.checksum

\* Node::IsConnected
IsConnected == socket_ # -1

\* Node::IsFullyConnected
IsFullyConnected == version_sent_ /\ version_received_

\* The commands Node::ProcessMessage answers with
Replies(command) ==
    IF command = "version" THEN <<"verack">>
    ELSE IF command = "ping" THEN <<"pong">>
    ELSE <<>>

NoFrame == [read |-> FALSE]

\* Node::Start
Start ==
    /\ receiving = "not started" /\ sending = "not started"
    /\ receiving' = "running"
    /\ sending' = "running"
    /\ UNCHANGED <<socket_, version_sent_, version_received_, send_queue_, lastFrame, processed>>
    /\ UNCHANGED <<steady_clock, last_recv_, last_send_>>
    /\ UNCHANGED <<poolVars, tmplVars, forkVars, popVars, regVars, utxoVars, codecVars, vrfVars, callVars, minerVars, stopVars, closeVars, wireVars, dbVars, cpVars>>

\* Node::Disconnect
Disconnect ==
    /\ socket_' = -1
    /\ UNCHANGED <<version_sent_, version_received_, send_queue_, receiving, sending,
                   lastFrame, processed>>
    /\ UNCHANGED <<steady_clock, last_recv_, last_send_>>
    /\ UNCHANGED <<poolVars, tmplVars, forkVars, popVars, regVars, utxoVars, codecVars, vrfVars, callVars, minerVars, stopVars, closeVars, wireVars, dbVars, cpVars>>

\* Node::PushVersion: PushMessage("version", ...), then version_sent_ = true
PushVersion ==
    /\ Len(send_queue_) < MaxQueue
    /\ send_queue_' = Append(send_queue_, "version")
    /\ version_sent_' = TRUE
    /\ UNCHANGED <<socket_, version_received_, receiving, sending, lastFrame, processed>>
    /\ UNCHANGED <<steady_clock, last_recv_, last_send_>>
    /\ UNCHANGED <<poolVars, tmplVars, forkVars, popVars, regVars, utxoVars, codecVars, vrfVars, callVars, minerVars, stopVars, closeVars, wireVars, dbVars, cpVars>>

\* One turn of Node::ReceiveLoop in which a whole frame arrives
ReceiveLoop(frame) ==
    /\ receiving = "running" /\ IsConnected
    /\ Len(send_queue_) + Len(Replies(frame.command)) <= MaxQueue
    /\ IF ~IsValid(frame)
          \/ ~VerifyChecksum(frame, PayloadChecksum(frame.payload_size, frame.body))
       THEN /\ socket_' = -1
            /\ receiving' = "returned"
            /\ lastFrame' = [read |-> TRUE, frame |-> frame, dispatched |-> FALSE]
            /\ UNCHANGED <<version_received_, send_queue_, processed, last_recv_>>
       ELSE /\ version_received_' = (version_received_ \/ frame.command = "version")
            /\ send_queue_' = send_queue_ \o Replies(frame.command)
            /\ processed' = processed \cup {frame.command}
            /\ lastFrame' = [read |-> TRUE, frame |-> frame, dispatched |-> TRUE]
            /\ last_recv_' = steady_clock
            /\ UNCHANGED <<socket_, receiving>>
    /\ UNCHANGED <<version_sent_, sending, steady_clock, last_send_>>
    /\ UNCHANGED <<poolVars, tmplVars, forkVars, popVars, regVars, utxoVars, codecVars, vrfVars, callVars, minerVars, stopVars, closeVars, wireVars, dbVars, cpVars>>

\* Node::ReceiveLoop returns: the socket is closed, or ReceiveExact fails
ReceiveLoopReturns ==
    /\ receiving = "running"
    /\ receiving' = "returned"
    /\ UNCHANGED <<socket_, version_sent_, version_received_, send_queue_, sending,
                   lastFrame, processed>>
    /\ UNCHANGED <<steady_clock, last_recv_, last_send_>>
    /\ UNCHANGED <<poolVars, tmplVars, forkVars, popVars, regVars, utxoVars, codecVars, vrfVars, callVars, minerVars, stopVars, closeVars, wireVars, dbVars, cpVars>>

\* One turn of Node::SendLoop: the message at the front of the queue is sent
\* (or SendExact fails and the loop returns); with nothing queued for
\* PING_INTERVAL, wait_for gives up and a ping is queued
SendLoop(sendOk) ==
    /\ sending = "running" /\ IsConnected
    /\ send_queue_ = <<>> => steady_clock < MaxPingIntervals * PING_INTERVAL
    /\ IF send_queue_ # <<>>
       THEN /\ send_queue_' = Tail(send_queue_)
            /\ sending' = IF sendOk THEN "running" ELSE "returned"
            /\ last_send_' = IF sendOk THEN steady_clock ELSE last_send_
            /\ UNCHANGED steady_clock
       ELSE /\ send_queue_' = <<"ping">>
            /\ steady_clock' = steady_clock + PING_INTERVAL
            /\ UNCHANGED <<sending, last_send_>>
    /\ UNCHANGED <<socket_, version_sent_, version_received_, receiving, lastFrame, processed,
                   last_recv_>>
    /\ UNCHANGED <<poolVars, tmplVars, forkVars, popVars, regVars, utxoVars, codecVars, vrfVars, callVars, minerVars, stopVars, closeVars, wireVars, dbVars, cpVars>>

\* A send task that stays in its loop after the socket is closed
SendLoopStays ==
    /\ sending = "running" /\ ~IsConnected
    /\ UNCHANGED <<nodeVars, poolVars, tmplVars, forkVars, popVars, regVars, utxoVars, codecVars,
                   vrfVars, callVars, minerVars, stopVars, closeVars, wireVars, dbVars, cpVars>>

\* Node::SendLoop returns, the socket being closed: at the head of the loop;
\* or out of the wait with a message, which is taken off the queue and whose
\* SendExact fails on the closed socket; or out of the wait after PING_INTERVAL,
\* a ping being queued before the head of the loop is reached
SendLoopReturns ==
    /\ sending = "running" /\ ~IsConnected
    /\ sending' = "returned"
    /\ \/ UNCHANGED <<send_queue_, steady_clock>>
       \/ /\ send_queue_ # <<>>
          /\ send_queue_' = Tail(send_queue_)
          /\ UNCHANGED steady_clock
       \/ /\ send_queue_ = <<>>
          /\ steady_clock < MaxPingIntervals * PING_INTERVAL
          /\ send_queue_' = <<"ping">>
          /\ steady_clock' = steady_clock + PING_INTERVAL
    /\ UNCHANGED <<socket_, version_sent_, version_received_, receiving, lastFrame, processed>>
    /\ UNCHANGED <<last_recv_, last_send_>>
    /\ UNCHANGED <<poolVars, tmplVars, forkVars, popVars, regVars, utxoVars, codecVars, vrfVars, callVars, minerVars, stopVars, closeVars, wireVars, dbVars, cpVars>>

\* Node::Node(socket, addr)
NodeStart ==
    /\ socket_ = OpenSocket
    /\ version_sent_ = FALSE
    /\ version_received_ = FALSE
    /\ send_queue_ = <<>>
    /\ receiving = "not started"
    /\ sending = "not started"
    /\ lastFrame = NoFrame
    /\ processed = {}
    /\ steady_clock = 0
    /\ last_recv_ = 0
    /\ last_send_ = 0

NodeIdle == NodeStart

---------------------------------------------------------------------------
(* Serialization: Buffer and CompactSize *)

\* The longest span a Buffer is made over
MaxBufferSize == 11

\* How many CompactSize values are written into one buffer
MaxSerializeCalls == 1

\* The k low bytes of n, least significant first (the byte order write() and
\* read() keep)
RECURSIVE ToBytes(_, _)
ToBytes(n, k) == IF k = 0 THEN <<>> ELSE <<n % 256>> \o ToBytes(n \div 256, k - 1)

\* A std::uint64_t, as its eight bytes
U64(n) == ToBytes(n, 8)

U16_MAX == <<255, 255, 0, 0, 0, 0, 0, 0>>

U32_MAX == <<255, 255, 255, 255, 0, 0, 0, 0>>

U64_MAX == <<255, 255, 255, 255, 255, 255, 255, 255>>

\* a < b, looking at the bytes from the k-th down
RECURSIVE LessFrom(_, _, _)
LessFrom(a, b, k) ==
    IF k = 0 THEN FALSE
    ELSE IF a[k] # b[k] THEN a[k] < b[k]
    ELSE LessFrom(a, b, k - 1)

U64Less(a, b) == LessFrom(a, b, 8)

U64LessEq(a, b) == ~LessFrom(b, a, 8)

\* static_cast to an unsigned type of k bytes
Truncate(v, k) == SubSeq(v, 1, k)

\* An unsigned value of fewer bytes taken as a std::uint64_t
ZeroExtend(bytes) == bytes \o [i \in 1..(8 - Len(bytes)) |-> 0]

\* A std::uint64_t that is at most MAX_SIZE, as a number
ToSize(v) == v[1] + 256 * v[2] + 65536 * v[3] + 16777216 * v[4]

\* Buffer::remaining
remaining(buffer) == Len(buffer.data_) - buffer.pos_

\* Buffer::has_space
has_space(buffer, n) == remaining(buffer) >= n

\* Buffer::write_bytes; Buffer::write of a primitive is write_bytes of its bytes
write_bytes(buffer, bytes) ==
    IF ~has_space(buffer, Len(bytes))
    THEN [error |-> "buffer_overflow", buffer |-> buffer]
    ELSE [error  |-> "none",
          buffer |-> [data_ |-> [i \in DOMAIN buffer.data_ |->
                                    IF i > buffer.pos_ /\ i <= buffer.pos_ + Len(bytes)
                                    THEN bytes[i - buffer.pos_] ELSE buffer.data_[i]],
                      pos_  |-> buffer.pos_ + Len(bytes)]]

\* Buffer::read_bytes; Buffer::read of a primitive is read_bytes of its size
read_bytes(buffer, n) ==
    IF ~has_space(buffer, n)
    THEN [error |-> "unexpected_end", buffer |-> buffer]
    ELSE [error  |-> "none",
          bytes  |-> SubSeq(buffer.data_, buffer.pos_ + 1, buffer.pos_ + n),
          buffer |-> [buffer EXCEPT !.pos_ = buffer.pos_ + n]]

\* CompactSize::encoded_size
encoded_size(value_) ==
    IF U64Less(value_, U64(253)) THEN 1
    ELSE IF U64LessEq(value_, U16_MAX) THEN 3
    ELSE IF U64LessEq(value_, U32_MAX) THEN 5
    ELSE 9

\* The marker byte and then the value in `width` bytes
WriteMarked(buffer, marker, value_, width) ==
    LET r == write_bytes(buffer, <<marker>>)
    IN  IF r.error # "none" THEN r ELSE write_bytes(r.buffer, Truncate(value_, width))

\* A serialize that takes the shortest form for values below 0xFFFF only
CompactSize_serialize_strict(buffer, value_) ==
    IF U64Less(value_, U64(253)) THEN write_bytes(buffer, Truncate(value_, 1))
    ELSE IF U64Less(value_, U16_MAX) THEN WriteMarked(buffer, 253, value_, 2)
    ELSE IF U64LessEq(value_, U32_MAX) THEN WriteMarked(buffer, 254, value_, 4)
    ELSE WriteMarked(buffer, 255, value_, 8)

\* CompactSize::serialize
CompactSize_serialize(buffer, value_) ==
    IF U64Less(value_, U64(253)) THEN write_bytes(buffer, Truncate(value_, 1))
    ELSE IF U64LessEq(value_, U16_MAX) THEN WriteMarked(buffer, 253, value_, 2)
    ELSE IF U64LessEq(value_, U32_MAX) THEN WriteMarked(buffer, 254, value_, 4)
    ELSE WriteMarked(buffer, 255, value_, 8)

\* A deserialize that does not compare the value with MAX_SIZE
CompactSize_deserialize_unlimited(buffer) ==
    LET first == read_bytes(buffer, 1)
    IN  IF first.error # "none" THEN [error |-> first.error, buffer |-> first.buffer]
        ELSE IF first.bytes[1] < 253
        THEN [error |-> "none", value |-> ZeroExtend(first.bytes), buffer |-> first.buffer]
        ELSE LET width == IF first.bytes[1] = 253 THEN 2
                          ELSE IF first.bytes[1] = 254 THEN 4 ELSE 8
                 v     == read_bytes(first.buffer, width)
             IN  IF v.error # "none" THEN [error |-> v.error, buffer |-> v.buffer]
                 ELSE [error |-> "none", value |-> ZeroExtend(v.bytes), buffer |-> v.buffer]

\* CompactSize::deserialize
CompactSize_deserialize(buffer) ==
    LET first == read_bytes(buffer, 1)
    IN  IF first.error # "none" THEN [error |-> first.error, buffer |-> first.buffer]
        ELSE IF first.bytes[1] < 253
        THEN [error |-> "none", value |-> ZeroExtend(first.bytes), buffer |-> first.buffer]
        ELSE LET width == IF first.bytes[1] = 253 THEN 2
                          ELSE IF first.bytes[1] = 254 THEN 4 ELSE 8
                 v     == read_bytes(first.buffer, width)
             IN  IF v.error # "none" THEN [error |-> v.error, buffer |-> v.buffer]
                 ELSE IF U64Less(U64(MAX_SIZE), ZeroExtend(v.bytes))
                 THEN [error |-> "size_too_large", buffer |-> v.buffer]
                 ELSE [error |-> "none", value |-> ZeroExtend(v.bytes), buffer |-> v.buffer]

\* Serializer<std::string>::deserialize
String_deserialize(buffer) ==
    LET size == CompactSize_deserialize(buffer)
    IN  IF size.error # "none" THEN [error |-> size.error, buffer |-> size.buffer]
        ELSE LET bytes == read_bytes(size.buffer, ToSize(size.value))
             IN  IF bytes.error # "none" THEN [error |-> bytes.error, buffer |-> bytes.buffer]
                 ELSE [error |-> "none", value |-> bytes.bytes, buffer |-> bytes.buffer]

\* The loop of Serializer<std::vector<T>>::deserialize for T = std::uint16_t:
\* i counts the items read into vec
RECURSIVE VectorItems(_, _, _, _)
VectorItems(buffer, vec, i, size) ==
    IF ~(i < size) THEN [error |-> "none", value |-> vec, buffer |-> buffer]
    ELSE LET item == read_bytes(buffer, 2)
         IN  IF item.error # "none" THEN [error |-> item.error, buffer |-> item.buffer]
             ELSE VectorItems(item.buffer, Append(vec, item.bytes), i + 1, size)

\* Serializer<std::vector<std::uint16_t>>::deserialize
Vector_deserialize(buffer) ==
    LET size == CompactSize_deserialize(buffer)
    IN  IF size.error # "none" THEN [error |-> size.error, buffer |-> size.buffer]
        ELSE VectorItems(size.buffer, <<>>, 0, ToSize(size.value))

\* The values a CompactSize is made of here: around each change of width and
\* around MAX_SIZE
CompactValues ==
    {U64(0), U64(252), U64(253), U16_MAX, U64(65536), U64(MAX_SIZE), U64(MAX_SIZE + 1),
     U32_MAX, <<0, 0, 0, 0, 1, 0, 0, 0>>, U64_MAX}

\* Size prefixes as they come off the wire, with any marker wide enough for
\* the value: a peer need not write the shortest one
WirePrefixes ==
         {<<m>> : m \in {0, 2, 3, 252}}
    \cup {<<253>> \o Truncate(v, 2) : v \in {U64(2), U64(252), U64(253), U16_MAX}}
    \cup {<<254>> \o Truncate(v, 4) :
            v \in {U64(3), U64(65536), U64(MAX_SIZE), U64(MAX_SIZE + 1), U32_MAX}}
    \cup {<<255>> \o v :
            v \in {U64(2), U64(MAX_SIZE), U64(MAX_SIZE + 1), <<0, 0, 0, 0, 1, 0, 0, 0>>, U64_MAX}}

\* What follows a size prefix on the wire: the bytes of a string or of the
\* items of a vector
WireContents == {<<7, 8, 9, 10, 11>>}

\* The bytes a Buffer is made over: a prefix and what follows it, cut off
\* anywhere up to MaxBufferSize bytes
BufferContents ==
    UNION {{SubSeq(p \o c, 1, k) :
               k \in 0..(IF Len(p \o c) < MaxBufferSize THEN Len(p \o c) ELSE MaxBufferSize)} :
           p \in WirePrefixes, c \in WireContents}

NoSerialize == [called |-> FALSE, calls |-> 0]

NoDeserialize == [called |-> FALSE]

\* What a deserialize call leaves to look at: the bytes it was given, and its
\* outcome
Deserialized(decoder, r) ==
    [called  |-> TRUE,
     decoder |-> decoder,
     from    |-> pos_,
     input   |-> SubSeq(data_, pos_ + 1, Len(data_)),
     error   |-> r.error,
     value   |-> IF r.error = "none" THEN r.value ELSE <<>>]

\* CompactSize{n}.serialize(buffer); a buffer is written to before it is read
\* from
Serialize(n) ==
    LET r == CompactSize_serialize([data_ |-> data_, pos_ |-> pos_], n)
    IN  /\ lastSerialize.calls < MaxSerializeCalls
        /\ ~lastDeserialize.called
        /\ data_' = r.buffer.data_
        /\ pos_' = r.buffer.pos_
        /\ lastSerialize' = [called |-> TRUE, calls |-> lastSerialize.calls + 1, value |-> n,
                             from |-> pos_, to |-> r.buffer.pos_, error |-> r.error]
        /\ lastDeserialize' = NoDeserialize
        /\ UNCHANGED <<poolVars, tmplVars, forkVars, popVars, regVars, utxoVars, nodeVars, vrfVars, callVars, minerVars, stopVars, closeVars, wireVars, dbVars, cpVars>>

\* CompactSize::deserialize(buffer)
Deserialize ==
    LET r == CompactSize_deserialize([data_ |-> data_, pos_ |-> pos_])
    IN  /\ pos_' = r.buffer.pos_
        /\ lastDeserialize' = Deserialized("CompactSize", r)
        /\ UNCHANGED <<data_, lastSerialize>>
        /\ UNCHANGED <<poolVars, tmplVars, forkVars, popVars, regVars, utxoVars, nodeVars, vrfVars, callVars, minerVars, stopVars, closeVars, wireVars, dbVars, cpVars>>

\* Serializer<std::string>::deserialize(buffer)
DeserializeString ==
    LET r == String_deserialize([data_ |-> data_, pos_ |-> pos_])
    IN  /\ pos_' = r.buffer.pos_
        /\ lastDeserialize' = Deserialized("string", r)
        /\ UNCHANGED <<data_, lastSerialize>>
        /\ UNCHANGED <<poolVars, tmplVars, forkVars, popVars, regVars, utxoVars, nodeVars, vrfVars, callVars, minerVars, stopVars, closeVars, wireVars, dbVars, cpVars>>

\* Serializer<std::vector<std::uint16_t>>::deserialize(buffer)
DeserializeVector ==
    LET r == Vector_deserialize([data_ |-> data_, pos_ |-> pos_])
    IN  /\ pos_' = r.buffer.pos_
        /\ lastDeserialize' = Deserialized("vector", r)
        /\ UNCHANGED <<data_, lastSerialize>>
        /\ UNCHANGED <<poolVars, tmplVars, forkVars, popVars, regVars, utxoVars, nodeVars, vrfVars, callVars, minerVars, stopVars, closeVars, wireVars, dbVars, cpVars>>

\* Buffer::reset
reset ==
    /\ pos_' = 0
    /\ UNCHANGED <<data_, lastSerialize, lastDeserialize>>
    /\ UNCHANGED <<poolVars, tmplVars, forkVars, popVars, regVars, utxoVars, nodeVars, vrfVars, callVars, minerVars, stopVars, closeVars, wireVars, dbVars, cpVars>>

\* Buffer::Buffer(data)
CodecStart ==
    /\ data_ \in BufferContents
    /\ pos_ = 0
    /\ lastSerialize = NoSerialize
    /\ lastDeserialize = NoDeserialize

CodecIdle ==
    /\ data_ = <<>>
    /\ pos_ = 0
    /\ lastSerialize = NoSerialize
    /\ lastDeserialize = NoDeserialize

---------------------------------------------------------------------------
(* Lottery evaluations: VerifiableRandomFunction, goldcoin::VRF *)

\* The seeds a lottery is computed for
LotterySeeds == {[low |-> t, high |-> u] : t \in 0..MaxClock, u \in SeedHighBytes}

\* CHashWriter::GetHash and CHash256::Finalize as a mixing of the bytes written
\* into the hash space; of a hash, the first byte
RECURSIVE Hash256(_)
Hash256(bytes) ==
    IF bytes = <<>> THEN 1
    ELSE (Head(bytes) * 3 + Hash256(Tail(bytes)) * 5 + 1) % HashSpace

\* The secret keys of VRF objects
SecretKeys == {1, 2}

\* CKey::GetPrivKey: the bytes of the secret key
GetPrivKey(secretKey) == <<secretKey>>

\* VRF::VRF(key): publicKey = key.GetPubKey()
GetPubKey(secretKey) == <<secretKey + 2>>

\* The inputs generate and verify are given
VrfInputs == {<<>>, <<1>>, <<2>>}

\* The public keys verify is given
VrfPublicKeys == {<<>>} \cup {GetPubKey(k) : k \in SecretKeys}

\* VRFProof proof is declared without an initializer and only the first 32
\* bytes of gamma are written before all 64 are hashed: the last 32 are
\* whatever the object holds
UninitializedBytes == {0, 1}

\* VRF::generate(input), the bytes left unwritten given
generate(secretKey, input, unwritten) ==
    IF input = <<>> THEN [has_value |-> FALSE, error |-> "InvalidInput"]
    ELSE LET privKey == GetPrivKey(secretKey)
             output  == Hash256(privKey \o input)
             c       == Hash256(<<output>> \o input)
             gamma   == <<Hash256(<<c>> \o privKey), unwritten>>
             s       == Hash256(gamma)
         IN  [has_value |-> TRUE,
              value     |-> [value |-> output, proof |-> [gamma |-> gamma, c |-> c, s |-> s]]]

\* VRF::verify(publicKey, input, output)
verify(publicKey, input, output) ==
    IF input = <<>> \/ publicKey = <<>> THEN [has_value |-> FALSE, error |-> "InvalidInput"]
    ELSE LET check == Hash256(<<output.proof.c>> \o publicKey)
         IN  [has_value |-> TRUE, value |-> (check = output.proof.s)]

\* The amounts entries are registered with
StakeAmounts == {MINIMUM_STAKE, 10 * MINIMUM_STAKE}

\* The entries selectWinner chooses among, amounts left open
SelectEntries ==
    {<<>>, [i \in 1..MaxParticipants |-> [txid |-> i, address |-> 1, height |-> 0]]}

\* entries with the amounts given
WithAmounts(entries, amounts) ==
    [i \in 1..Len(entries) |->
        [txid |-> entries[i].txid, amount |-> amounts[i], address |-> entries[i].address,
         height |-> entries[i].height]]

NoVerify == [called |-> FALSE]

NoOutput == [called |-> FALSE]

\* VerifiableRandomFunction::ComputeLottery(block_seed, participant_key,
\* total_participating_stake)
ComputeLotteryCall(total_participating_stake) ==
    /\ lotteryRuns' = lotteryRuns \cup
           {[total_participating_stake |-> total_participating_stake,
             result |-> ComputeLottery(lotteryInput.block_seed, lotteryInput.participant_key,
                                       total_participating_stake)]}
    /\ UNCHANGED <<lotteryInput, lastLotteryVerify, vrfInput, vrfOutput, vrfVerdict,
                   selectInput, selectRuns>>
    /\ UNCHANGED <<poolVars, tmplVars, forkVars, popVars, regVars, utxoVars, nodeVars, codecVars, callVars, minerVars, stopVars, closeVars, wireVars, dbVars, cpVars>>

\* VerifiableRandomFunction::VerifyLottery(result, block_seed, participant_key)
\* of a result ComputeLottery returned
VerifyLotteryCall(block_seed, participant_key) ==
    /\ \E run \in lotteryRuns :
          lastLotteryVerify' =
              [called |-> TRUE, result |-> run.result, block_seed |-> block_seed,
               participant_key |-> participant_key,
               value |-> VerifyLottery(run.result, block_seed, participant_key)]
    /\ UNCHANGED <<lotteryInput, lotteryRuns, vrfInput, vrfOutput, vrfVerdict,
                   selectInput, selectRuns>>
    /\ UNCHANGED <<poolVars, tmplVars, forkVars, popVars, regVars, utxoVars, nodeVars, codecVars, callVars, minerVars, stopVars, closeVars, wireVars, dbVars, cpVars>>

\* vrf.generate(input)
GenerateCall ==
    /\ \E unwritten \in UninitializedBytes :
          vrfOutput' = [called |-> TRUE,
                        returned |-> generate(vrfInput.secretKey, vrfInput.input, unwritten)]
    /\ vrfVerdict' = NoVerify
    /\ UNCHANGED <<lotteryInput, lotteryRuns, lastLotteryVerify, vrfInput, selectInput, selectRuns>>
    /\ UNCHANGED <<poolVars, tmplVars, forkVars, popVars, regVars, utxoVars, nodeVars, codecVars, callVars, minerVars, stopVars, closeVars, wireVars, dbVars, cpVars>>

\* VRF::verify(publicKey, input, output) of an output generate returned
VerifyCall(publicKey, input) ==
    /\ vrfOutput.called /\ vrfOutput.returned.has_value
    /\ vrfVerdict' = [called |-> TRUE, publicKey |-> publicKey, input |-> input,
                      returned |-> verify(publicKey, input, vrfOutput.returned.value)]
    /\ UNCHANGED <<lotteryInput, lotteryRuns, lastLotteryVerify, vrfInput, vrfOutput,
                   selectInput, selectRuns>>
    /\ UNCHANGED <<poolVars, tmplVars, forkVars, popVars, regVars, utxoVars, nodeVars, codecVars, callVars, minerVars, stopVars, closeVars, wireVars, dbVars, cpVars>>

\* VRF(previousBlockHash).selectWinner(participants, blockHeight), the entries
\* registered with the amounts given
SelectWinnerCall(amounts) ==
    /\ Len(amounts) = Len(selectInput.entries)
    /\ selectRuns' = selectRuns \cup
           {[amounts |-> amounts,
             winner  |-> selectWinner(selectInput.seed,
                                      WithAmounts(selectInput.entries, amounts),
                                      selectInput.blockHeight)]}
    /\ UNCHANGED <<lotteryInput, lotteryRuns, lastLotteryVerify, vrfInput, vrfOutput,
                   vrfVerdict, selectInput>>
    /\ UNCHANGED <<poolVars, tmplVars, forkVars, popVars, regVars, utxoVars, nodeVars, codecVars, callVars, minerVars, stopVars, closeVars, wireVars, dbVars, cpVars>>

LotteryStart ==
    /\ lotteryInput \in [block_seed : LotterySeeds, participant_key : PublicKeys]
    /\ lotteryRuns = {}
    /\ lastLotteryVerify = NoVerify

LotteryIdle ==
    /\ lotteryInput = [block_seed |-> [low |-> 0, high |-> 0], participant_key |-> 1]
    /\ lotteryRuns = {}
    /\ lastLotteryVerify = NoVerify

VrfStart ==
    /\ vrfInput \in [secretKey : SecretKeys, input : VrfInputs]
    /\ vrfOutput = NoOutput
    /\ vrfVerdict = NoVerify

GenerateIdle ==
    /\ vrfInput = [secretKey |-> 1, input |-> <<>>]
    /\ vrfOutput = NoOutput
    /\ vrfVerdict = NoVerify

SelectStart ==
    /\ selectInput \in [seed : {1, 2}, blockHeight : {STAKE_MATURITY, STAKE_MATURITY + 1},
                        entries : SelectEntries]
    /\ selectRuns = {}

SelectIdle ==
    /\ selectInput = [seed |-> 1, blockHeight |-> STAKE_MATURITY, entries |-> <<>>]
    /\ selectRuns = {}

VrfIdle == LotteryIdle /\ GenerateIdle /\ SelectIdle

---------------------------------------------------------------------------
(* CBlock::CheckBlock *)

\* MAX_BLOCK_SIZE of main_simplified.h
main_MAX_BLOCK_SIZE == 32 * 1024 * 1024

MaxBlockTx == 3

\* The transactions blocks are made of here: the outpoints of the inputs (0 is
\* the null outpoint), the serialized size, and what CheckTransaction returns
BlockTxs ==
    { [vin |-> <<0>>,    nSize |-> 100,                 checks |-> TRUE],
      [vin |-> <<1>>,    nSize |-> 250,                 checks |-> TRUE],
      [vin |-> <<1, 2>>, nSize |-> 400,                 checks |-> TRUE],
      [vin |-> <<2>>,    nSize |-> 250,                 checks |-> FALSE],
      [vin |-> <<3>>,    nSize |-> main_MAX_BLOCK_SIZE, checks |-> TRUE] }

Blocks == UNION {[1..n -> BlockTxs] : n \in 0..MaxBlockTx}

\* CTransaction::IsCoinBase
CTransaction_IsCoinBase(tx) == Len(tx.vin) = 1 /\ tx.vin[1] = 0

\* ::GetSerializeSize of the transactions of a block
RECURSIVE SerializeSize(_)
SerializeSize(vtx) == IF vtx = <<>> THEN 0 ELSE Head(vtx).nSize + SerializeSize(Tail(vtx))

\* CBlock::CheckBlock
CheckBlock(vtx) ==
    IF vtx = <<>> \/ Len(vtx) > main_MAX_BLOCK_SIZE THEN FALSE
    ELSE IF ~CTransaction_IsCoinBase(vtx[1]) THEN FALSE
    ELSE \A i \in DOMAIN vtx : vtx[i].checks

NoCall == [called |-> FALSE]

\* block.CheckBlock()
CheckBlockCall ==
    /\ argument.of = "CBlock"
    /\ returned' = [called |-> TRUE, value |-> CheckBlock(argument.vtx)]
    /\ UNCHANGED argument
    /\ UNCHANGED <<poolVars, tmplVars, forkVars, popVars, regVars, utxoVars, nodeVars, codecVars, vrfVars, minerVars, stopVars, closeVars, wireVars, dbVars, cpVars>>

BlockStart ==
    /\ argument \in {[of |-> "CBlock", vtx |-> vtx] : vtx \in Blocks}
    /\ returned = NoCall

---------------------------------------------------------------------------
(* IPClusteringDetector *)

STAKE_MATURITY_BLOCKS == 1440

MaxNodeCopies == 6

\* 10.0.0.1, the node that asks to take part
NewNodeAddr == 10 * 2^24 + 1

\* The addresses of the nodes there are: 10.0.0.2 in the /24 of the new node,
\* 10.0.1.2 in its /20 and not in its /24, 10.1.0.2 in neither
NodeAddrs == {10 * 2^24 + 2, 10 * 2^24 + 2^8 + 2, 10 * 2^24 + 2^16 + 2}

\* existing_nodes, as the number of times each address is in the vector
ExistingNodes == [NodeAddrs -> 0..MaxNodeCopies]

\* The coin ages asked about: around ten times the maturity
CoinAges == {STAKE_MATURITY_BLOCKS * 10 - 1, STAKE_MATURITY_BLOCKS * 10,
             STAKE_MATURITY_BLOCKS * 10 + 1}

\* IPClusteringDetector::GetSubnetMask: ip & (0xFFFFFFFF << (32 - mask_bits)),
\* for mask_bits of 16, 20 and 24
GetSubnetMask(ip, mask_bits) == (ip \div 2^(32 - mask_bits)) * 2^(32 - mask_bits)

\* The total of nodes[a] over the addresses of S
RECURSIVE CopiesIn(_, _)
CopiesIn(nodes, S) ==
    IF S = {} THEN 0
    ELSE LET a == CHOOSE x \in S : TRUE IN nodes[a] + CopiesIn(nodes, S \ {a})

\* IPClusteringDetector::CountNodesInSubnet
CountNodesInSubnet(addr, mask_bits, nodes) ==
    CopiesIn(nodes, {a \in DOMAIN nodes :
                        GetSubnetMask(a, mask_bits) = GetSubnetMask(addr, mask_bits)})

\* IPClusteringDetector::AnalyzeIPClustering
AnalyzeIPClustering(new_node, existing_nodes) ==
    LET nodes_in_c  == CountNodesInSubnet(new_node, 24, existing_nodes)
        nodes_in_20 == CountNodesInSubnet(new_node, 20, existing_nodes)
    IN  [node_count_in_subnet |-> nodes_in_c,
         suspicious_pattern   |-> nodes_in_c > 2,
         recommended_mask     |-> IF nodes_in_c > 2
                                  THEN (IF nodes_in_20 > 10 THEN 16 ELSE 20)
                                  ELSE 24]

\* IPClusteringDetector::ShouldAllowNode
ShouldAllowNode(addr, metrics, analysis) ==
    IF ~analysis.suspicious_pattern THEN TRUE
    ELSE IF metrics.coin_age_blocks > STAKE_MATURITY_BLOCKS * 10 THEN TRUE
    ELSE IF analysis.recommended_mask \in {24, 20, 16}
         THEN analysis.node_count_in_subnet <= 2
    ELSE FALSE

\* detector.AnalyzeIPClustering(new_node, existing_nodes)
AnalyzeCall ==
    /\ argument.of = "node"
    /\ returned' = [called |-> TRUE, by |-> "AnalyzeIPClustering",
                    analysis |-> AnalyzeIPClustering(argument.new_node, argument.existing_nodes)]
    /\ UNCHANGED argument
    /\ UNCHANGED <<poolVars, tmplVars, forkVars, popVars, regVars, utxoVars, nodeVars, codecVars, vrfVars, minerVars, stopVars, closeVars, wireVars, dbVars, cpVars>>

\* detector.ShouldAllowNode(addr, metrics, analysis) with the analysis made
ShouldAllowCall ==
    /\ argument.of = "node"
    /\ returned.called
    /\ returned' = [called |-> TRUE, by |-> "ShouldAllowNode", analysis |-> returned.analysis,
                    value |-> ShouldAllowNode(argument.new_node, argument.metrics,
                                              returned.analysis)]
    /\ UNCHANGED argument
    /\ UNCHANGED <<poolVars, tmplVars, forkVars, popVars, regVars, utxoVars, nodeVars, codecVars, vrfVars, minerVars, stopVars, closeVars, wireVars, dbVars, cpVars>>

ClusterStart ==
    /\ argument \in {[of |-> "node", new_node |-> NewNodeAddr, existing_nodes |-> e,
                       metrics |-> [coin_age_blocks |-> age]] :
                         e \in ExistingNodes, age \in CoinAges}
    /\ returned = NoCall

---------------------------------------------------------------------------
(* The block reward *)

MaxHalvings == 7

\* The first and the last height of each subsidy period up to MaxHalvings, and
\* the first height whose period number is the width of nSubsidy
RewardHeights == {k * 840000 + d : k \in 0..MaxHalvings, d \in {0, 839999}} \cup {64 * 840000}

RewardFees == {0, 1, COIN}

\* GetBlockValue(nHeight, nFees) of participation.cpp for every int nHeight >= 0.
\* From nHeight = 64 * 840000 on, nSubsidy >>= (nHeight / 840000) shifts a
\* 64-bit value by its width or more, which is undefined: the builds either
\* shift everything out or shift by the count modulo 64.
GetBlockValueOutcomes(nHeight, nFees) ==
    IF nHeight \div 840000 < 64 THEN {GetBlockValue(nHeight, nFees)}
    ELSE {COIN + nFees, GetBlockValue(((nHeight \div 840000) % 64) * 840000, nFees)}

\* goldcoin::GetBlockValue(nHeight, nFees) of the chain parameters
goldcoin_GetBlockValue(nHeight, nFees) ==
    LET nSubsidy == IF nHeight < 840000 THEN 50 * COIN
                    ELSE IF nHeight < 1680000 THEN 25 * COIN
                    ELSE IF nHeight < 2520000 THEN 10 * COIN
                    ELSE IF nHeight < 3360000 THEN 5 * COIN
                    ELSE 2 * COIN
    IN  nSubsidy + nFees

\* GetBlockValue(nHeight, nFees), participation.cpp
GetBlockValueCall ==
    /\ argument.of = "height"
    /\ \E value \in GetBlockValueOutcomes(argument.nHeight, argument.nFees) :
           returned' = [called |-> TRUE, by |-> "GetBlockValue", value |-> value]
    /\ UNCHANGED argument
    /\ UNCHANGED <<poolVars, tmplVars, forkVars, popVars, regVars, utxoVars, nodeVars, codecVars, vrfVars, minerVars, stopVars, closeVars, wireVars, dbVars, cpVars>>

\* goldcoin::GetBlockValue(nHeight, nFees)
goldcoin_GetBlockValueCall ==
    /\ argument.of = "height"
    /\ returned' = [called |-> TRUE, by |-> "goldcoin::GetBlockValue",
                    value |-> goldcoin_GetBlockValue(argument.nHeight, argument.nFees)]
    /\ UNCHANGED argument
    /\ UNCHANGED <<poolVars, tmplVars, forkVars, popVars, regVars, utxoVars, nodeVars, codecVars, vrfVars, minerVars, stopVars, closeVars, wireVars, dbVars, cpVars>>

RewardStart ==
    /\ argument \in {[of |-> "height", nHeight |-> h, nFees |-> f] :
                         h \in RewardHeights, f \in RewardFees}
    /\ returned = NoCall

---------------------------------------------------------------------------
(* CTransaction::GetValueOut *)

\* Amounts are counted here in quarters of MAX_MONEY = 1172245700 * COIN, of
\* which the largest int64_t holds a little more than 314
main_MAX_MONEY == 4

Int64Max == 314

MaxOutputs == 3

\* The output values: the ends of int64_t, the ends of the money range and
\* their neighbours
OutputValues == {0 - Int64Max - 1, 0 - 1, 0, 1, 2, main_MAX_MONEY, main_MAX_MONEY + 1,
                 Int64Max - main_MAX_MONEY + 1, Int64Max}

Outputs == UNION {[1..n -> OutputValues] : n \in 0..MaxOutputs}

\* MoneyRange
MoneyRange(nValue) == nValue >= 0 /\ nValue <= main_MAX_MONEY

\* What a sum that int64_t cannot hold wraps to
WrapInt64(n) == ((n + Int64Max + 1) % (2 * (Int64Max + 1))) - (Int64Max + 1)

\* A loop that tests the running total only
RECURSIVE ValueOutLoopOfTotals(_, _)
ValueOutLoopOfTotals(vout, nValueOut) ==
    IF vout = <<>> THEN {[threw |-> FALSE, value |-> nValueOut]}
    ELSE LET sum == nValueOut + Head(vout)
         IN  IF ~MoneyRange(WrapInt64(sum)) THEN {[threw |-> TRUE]}
             ELSE ValueOutLoopOfTotals(Tail(vout), WrapInt64(sum))

\* The loop of CTransaction::GetValueOut from a running total on: what the
\* call can come to. nValueOut += out.nValue is undefined when int64_t cannot
\* hold the sum: the build then stops the program or goes on with the wrapped
\* sum.
RECURSIVE ValueOutLoop(_, _)
ValueOutLoop(vout, nValueOut) ==
    IF vout = <<>> THEN {[threw |-> FALSE, value |-> nValueOut]}
    ELSE LET sum      == nValueOut + Head(vout)
             after(n) == IF ~MoneyRange(Head(vout)) \/ ~MoneyRange(n)
                         THEN {[threw |-> TRUE]}
                         ELSE ValueOutLoop(Tail(vout), n)
         IN  IF sum = WrapInt64(sum) THEN after(sum)
             ELSE {[threw |-> TRUE]} \cup after(WrapInt64(sum))

\* tx.GetValueOut()
GetValueOutCall ==
    /\ argument.of = "CTransaction"
    /\ \E outcome \in ValueOutLoop(argument.vout, 0) :
           returned' = [called |-> TRUE, by |-> "GetValueOut", outcome |-> outcome]
    /\ UNCHANGED argument
    /\ UNCHANGED <<poolVars, tmplVars, forkVars, popVars, regVars, utxoVars, nodeVars, codecVars, vrfVars, minerVars, stopVars, closeVars, wireVars, dbVars, cpVars>>

ValueStart ==
    /\ argument \in {[of |-> "CTransaction", vout |-> vout] : vout \in Outputs}
    /\ returned = NoCall

---------------------------------------------------------------------------
(* PoPCheckpoints *)

FINALITY_DEPTH == 30

\* PoPCheckpoints::LoadHistoricalCheckpoints: the heights of the checkpoints
\* the constructor loads
LoadHistoricalCheckpoints == {0, 100000, 1000000, 3000000, 3500000}

\* The heights of the best block and the heights asked about: each checkpoint
\* and the heights just after it and FINALITY_DEPTH after it
FinalityHeights ==
    {cp + d : cp \in LoadHistoricalCheckpoints,
              d \in {0, 1, FINALITY_DEPTH - 1, FINALITY_DEPTH, FINALITY_DEPTH + 1}}

\* PoPCheckpoints::IsBlockFinalized
IsBlockFinalized(heights, currentHeight, nHeight) ==
    IF currentHeight - nHeight >= FINALITY_DEPTH THEN TRUE
    ELSE nHeight \in heights

\* checkpoints.IsBlockFinalized(nHeight)
IsBlockFinalizedCall ==
    /\ argument.of = "PoPCheckpoints"
    /\ returned' = [called |-> TRUE, by |-> "IsBlockFinalized",
                    value |-> IsBlockFinalized(argument.checkpoints, nBestHeight, argument.nHeight)]
    /\ UNCHANGED argument
    /\ UNCHANGED <<poolVars, tmplVars, forkVars, popVars, regVars, utxoVars, nodeVars, codecVars, vrfVars, minerVars, stopVars, closeVars, wireVars, dbVars, cpVars>>

FinalityStart ==
    /\ argument \in {[of |-> "PoPCheckpoints", checkpoints |-> LoadHistoricalCheckpoints,
                       nHeight |-> nHeight] : nHeight \in FinalityHeights}
    /\ returned = NoCall

CallIdle ==
    /\ argument = [of |-> "none"]
    /\ returned = NoCall

---------------------------------------------------------------------------
(* ParticipationMiner, statement by statement, beside the threads that connect
   peers, fill the wallet, register participants and connect blocks *)

MaxNewBlocks == 2

\* Hash160(key.GetPubKey()) of the key of the miner
MinerAddress == 1

\* The entries registered beside the miner: one of its address and one of
\* another, locked at height 0
MinerEntries == {[txid |-> a, amount |-> MINIMUM_STAKE, address |-> a, height |-> 0] : a \in 1..2}

\* What GetMyStakeAmount() can return
WalletStakes == {MINIMUM_STAKE - 1, MINIMUM_STAKE}

NoLocal == [peers |-> FALSE, myStake |-> 0, pindexPrev |-> [isNull |-> TRUE], won |-> FALSE]

NoProcessBlock == [called |-> FALSE]

\* ParticipationValidator::checkParticipation: what it returns
Participates(registry, myAddress, previousBlockHash, currentHeight) ==
    LET participants == ActiveParticipants(registry, currentHeight)
        winner       == selectWinner(previousBlockHash, participants, currentHeight)
    IN  IF participants = <<>> THEN FALSE
        ELSE winner.has_value /\ winner.value.address = myAddress

\* An iteration that goes on whatever GetMyStakeAmount returned
EnoughStakeAlways(myStake) == TRUE

\* myStake < MINIMUM_STAKE is false
EnoughStake(myStake) == ~(myStake < MINIMUM_STAKE)

\* A loop head that does not look at fShutdown
MinerWakeUnchecked ==
    /\ minerAt = "while"
    /\ minerAt' = IF ~fGenerateBitcoins THEN "returned" ELSE "peers"
    /\ minerLocal' = NoLocal
    /\ UNCHANGED <<vNodes, mapWallet, hashBestChain, fGenerateBitcoins, fShutdown, lastProcessBlock>>
    /\ UNCHANGED <<poolVars, tmplVars, forkVars, popVars, regVars, utxoVars, nodeVars, codecVars, vrfVars, callVars, stopVars, closeVars, wireVars, dbVars, cpVars>>

\* while (fGenerateBitcoins) { sleep_for(2s); if (fShutdown) return;
MinerWake ==
    /\ minerAt = "while"
    /\ minerAt' = IF ~fGenerateBitcoins \/ fShutdown THEN "returned" ELSE "peers"
    /\ minerLocal' = NoLocal
    /\ UNCHANGED <<vNodes, mapWallet, hashBestChain, fGenerateBitcoins, fShutdown, lastProcessBlock>>
    /\ UNCHANGED <<poolVars, tmplVars, forkVars, popVars, regVars, utxoVars, nodeVars, codecVars, vrfVars, callVars, stopVars, closeVars, wireVars, dbVars, cpVars>>

\* while (vNodes.empty()) { sleep_for(1s); if (fShutdown || !fGenerateBitcoins) return; }
MinerWaitForPeers ==
    /\ minerAt = "peers"
    /\ IF vNodes = 0
       THEN /\ minerAt' = IF fShutdown \/ ~fGenerateBitcoins THEN "returned" ELSE "peers"
            /\ UNCHANGED minerLocal
       ELSE /\ minerAt' = "stake"
            /\ minerLocal' = [minerLocal EXCEPT !.peers = TRUE]
    /\ UNCHANGED <<vNodes, mapWallet, hashBestChain, fGenerateBitcoins, fShutdown, lastProcessBlock>>
    /\ UNCHANGED <<poolVars, tmplVars, forkVars, popVars, regVars, utxoVars, nodeVars, codecVars, vrfVars, callVars, stopVars, closeVars, wireVars, dbVars, cpVars>>

\* myStake = GetMyStakeAmount(); if (myStake < MINIMUM_STAKE) continue;
MinerCheckStake ==
    /\ minerAt = "stake"
    /\ minerLocal' = [minerLocal EXCEPT !.myStake = mapWallet]
    /\ minerAt' = IF EnoughStake(mapWallet) THEN "best" ELSE "while"
    /\ UNCHANGED <<vNodes, mapWallet, hashBestChain, fGenerateBitcoins, fShutdown, lastProcessBlock>>
    /\ UNCHANGED <<poolVars, tmplVars, forkVars, popVars, regVars, utxoVars, nodeVars, codecVars, vrfVars, callVars, stopVars, closeVars, wireVars, dbVars, cpVars>>

\* pindexPrev = pindexBest; if (!pindexPrev) continue;
MinerReadBest ==
    /\ minerAt = "best"
    /\ IF nBestHeight < 0
       THEN /\ minerAt' = "while"
            /\ UNCHANGED minerLocal
       ELSE /\ minerAt' = "lottery"
            /\ minerLocal' = [minerLocal EXCEPT !.pindexPrev =
                                 [isNull |-> FALSE, nHeight |-> nBestHeight, hash |-> hashBestChain]]
    /\ UNCHANGED <<vNodes, mapWallet, hashBestChain, fGenerateBitcoins, fShutdown, lastProcessBlock>>
    /\ UNCHANGED <<poolVars, tmplVars, forkVars, popVars, regVars, utxoVars, nodeVars, codecVars, vrfVars, callVars, stopVars, closeVars, wireVars, dbVars, cpVars>>

\* if (!g_participationValidator.checkParticipation(myAddress, prevBlockHash,
\*                                                  pindexPrev->nHeight + 1)) continue;
MinerCheckParticipation ==
    /\ minerAt = "lottery"
    /\ LET won == Participates(activeParticipants, MinerAddress, minerLocal.pindexPrev.hash,
                               minerLocal.pindexPrev.nHeight + 1)
       IN  /\ minerLocal' = [minerLocal EXCEPT !.won = won]
           /\ minerAt' = IF won THEN "create" ELSE "while"
    /\ UNCHANGED <<vNodes, mapWallet, hashBestChain, fGenerateBitcoins, fShutdown, lastProcessBlock>>
    /\ UNCHANGED <<poolVars, tmplVars, forkVars, popVars, regVars, utxoVars, nodeVars, codecVars, vrfVars, callVars, stopVars, closeVars, wireVars, dbVars, cpVars>>

\* From the coinbase to key.Sign(pblock->GetHash(), vchSig), which fails or not
MinerCreateBlock ==
    /\ minerAt = "create"
    /\ LET nHeight   == minerLocal.pindexPrev.nHeight + 1
           collected == MinerCollect(mapTransactions)
       IN  pblock' = [by |-> "ParticipationMiner", nHeight |-> nHeight,
                      vtx |-> collected.vtx,
                      nValue |-> GetBlockValue(nHeight, collected.nFees)]
    /\ \E signed \in BOOLEAN : minerAt' = IF signed THEN "process" ELSE "while"
    /\ UNCHANGED <<mapTransactions, mapNextTx, feeSys, nBestHeight, lastAccept>>
    /\ UNCHANGED <<vNodes, mapWallet, hashBestChain, fGenerateBitcoins, fShutdown, minerLocal, lastProcessBlock>>
    /\ UNCHANGED <<tmplVars, forkVars, popVars, regVars, utxoVars, nodeVars, codecVars, vrfVars, callVars, stopVars, closeVars, wireVars, dbVars, cpVars>>

\* ProcessBlock(nullptr, pblock.release()); sleep_for(500ms); }
MinerProcessBlock ==
    /\ minerAt = "process"
    /\ lastProcessBlock' = [called |-> TRUE, nHeight |-> pblock.nHeight,
                            hashPrevBlock |-> minerLocal.pindexPrev.hash]
    /\ minerAt' = "while"
    /\ UNCHANGED <<vNodes, mapWallet, hashBestChain, fGenerateBitcoins, fShutdown, minerLocal>>
    /\ UNCHANGED <<poolVars, tmplVars, forkVars, popVars, regVars, utxoVars, nodeVars, codecVars, vrfVars, callVars, stopVars, closeVars, wireVars, dbVars, cpVars>>

\* The other threads: a peer connects or the last one leaves
PeersChange ==
    /\ vNodes' = 1 - vNodes
    /\ UNCHANGED <<mapWallet, hashBestChain, fGenerateBitcoins, fShutdown, minerAt, minerLocal, lastProcessBlock>>
    /\ UNCHANGED <<poolVars, tmplVars, forkVars, popVars, regVars, utxoVars, nodeVars, codecVars, vrfVars, callVars, stopVars, closeVars, wireVars, dbVars, cpVars>>

\* The other threads: the wallet gains or loses confirmed stake
WalletChanges(nStake) ==
    /\ mapWallet' = nStake
    /\ UNCHANGED <<vNodes, hashBestChain, fGenerateBitcoins, fShutdown, minerAt, minerLocal, lastProcessBlock>>
    /\ UNCHANGED <<poolVars, tmplVars, forkVars, popVars, regVars, utxoVars, nodeVars, codecVars, vrfVars, callVars, stopVars, closeVars, wireVars, dbVars, cpVars>>

\* The other threads: a block of the given hash becomes the best block
NewBestBlock(hash) ==
    /\ (nBestHeight + 1) % STAKE_MATURITY < MaxNewBlocks
    /\ nBestHeight' = nBestHeight + 1
    /\ hashBestChain' = hash
    /\ UNCHANGED <<mapTransactions, mapNextTx, feeSys, pblock, lastAccept>>
    /\ UNCHANGED <<vNodes, mapWallet, fGenerateBitcoins, fShutdown, minerAt, minerLocal, lastProcessBlock>>
    /\ UNCHANGED <<tmplVars, forkVars, popVars, regVars, utxoVars, nodeVars, codecVars, vrfVars, callVars, stopVars, closeVars, wireVars, dbVars, cpVars>>

\* The other threads: generation is switched off, or the node shuts down
StopMiner ==
    /\ \/ fGenerateBitcoins' = FALSE /\ UNCHANGED fShutdown
       \/ fShutdown' = TRUE /\ UNCHANGED fGenerateBitcoins
    /\ UNCHANGED <<vNodes, mapWallet, hashBestChain, minerAt, minerLocal, lastProcessBlock>>
    /\ UNCHANGED <<poolVars, tmplVars, forkVars, popVars, regVars, utxoVars, nodeVars, codecVars, vrfVars, callVars, stopVars, closeVars, wireVars, dbVars, cpVars>>

MinerStart ==
    /\ vNodes = 0
    /\ mapWallet \in WalletStakes
    /\ hashBestChain = 0
    /\ fGenerateBitcoins = TRUE
    /\ fShutdown = FALSE
    /\ minerAt = "while"
    /\ minerLocal = NoLocal
    /\ lastProcessBlock = NoProcessBlock

MinerIdle ==
    /\ vNodes = 0
    /\ mapWallet = 0
    /\ hashBestChain = 0
    /\ fGenerateBitcoins = FALSE
    /\ fShutdown = FALSE
    /\ minerAt = "returned"
    /\ minerLocal = NoLocal
    /\ lastProcessBlock = NoProcessBlock

---------------------------------------------------------------------------
(* ThreadManager and AppContext: the shutdown request *)

MaxWaiters == 3

\* The threads that call wait_for_shutdown
Waiters == 1..MaxWaiters

\* The threads that request the shutdown: one through
\* AppContext::request_shutdown, one through ThreadManager::request_shutdown
Requesters == {"AppContext", "ThreadManager"}

\* ThreadManager::shutdown_requested
shutdown_requested == shutdown_requested_

\* AppContext::is_running
is_running == running_

\* AppContext::request_shutdown: running_.store(false)
StoreNotRunning(r) ==
    /\ r = "AppContext" /\ requestAt[r] = "out"
    /\ running_' = FALSE
    /\ requestAt' = [requestAt EXCEPT ![r] = "request_shutdown"]
    /\ UNCHANGED <<shutdown_requested_, waitAt>>
    /\ UNCHANGED <<poolVars, tmplVars, forkVars, popVars, regVars, utxoVars, nodeVars, codecVars, vrfVars, callVars, minerVars, closeVars, wireVars, dbVars, cpVars>>

\* ThreadManager::request_shutdown: shutdown_requested_.store(true)
StoreRequested(r) ==
    /\ \/ r = "AppContext" /\ requestAt[r] = "request_shutdown"
       \/ r = "ThreadManager" /\ requestAt[r] = "out"
    /\ shutdown_requested_' = TRUE
    /\ requestAt' = [requestAt EXCEPT ![r] = "notify_all"]
    /\ UNCHANGED <<running_, waitAt>>
    /\ UNCHANGED <<poolVars, tmplVars, forkVars, popVars, regVars, utxoVars, nodeVars, codecVars, vrfVars, callVars, minerVars, closeVars, wireVars, dbVars, cpVars>>

\* A request that wakes nobody
NotifyNobody(r) ==
    /\ requestAt[r] = "notify_all"
    /\ requestAt' = [requestAt EXCEPT ![r] = "out"]
    /\ UNCHANGED <<shutdown_requested_, running_, waitAt>>
    /\ UNCHANGED <<poolVars, tmplVars, forkVars, popVars, regVars, utxoVars, nodeVars, codecVars, vrfVars, callVars, minerVars, closeVars, wireVars, dbVars, cpVars>>

\* ThreadManager::request_shutdown: shutdown_requested_.notify_all(), which
\* unblocks every thread blocked in wait; the call returns
NotifyAll(r) ==
    /\ requestAt[r] = "notify_all"
    /\ waitAt' = [t \in Waiters |-> IF waitAt[t] = "blocked" THEN "unblocked" ELSE waitAt[t]]
    /\ requestAt' = [requestAt EXCEPT ![r] = "out"]
    /\ UNCHANGED <<shutdown_requested_, running_>>
    /\ UNCHANGED <<poolVars, tmplVars, forkVars, popVars, regVars, utxoVars, nodeVars, codecVars, vrfVars, callVars, minerVars, closeVars, wireVars, dbVars, cpVars>>

\* ThreadManager::wait_for_shutdown: shutdown_requested_.wait(false) compares
\* the value with false and blocks if they are equal, in one step; a thread
\* that is unblocked compares again
Wait(t) ==
    /\ waitAt[t] \in {"out", "unblocked"}
    /\ waitAt' = [waitAt EXCEPT ![t] = IF shutdown_requested_ = FALSE THEN "blocked" ELSE "out"]
    /\ waitAt' # waitAt
    /\ UNCHANGED <<shutdown_requested_, running_, requestAt>>
    /\ UNCHANGED <<poolVars, tmplVars, forkVars, popVars, regVars, utxoVars, nodeVars, codecVars, vrfVars, callVars, minerVars, closeVars, wireVars, dbVars, cpVars>>

\* A blocked thread is unblocked without a notification
SpuriousWake(t) ==
    /\ waitAt[t] = "blocked"
    /\ waitAt' = [waitAt EXCEPT ![t] = "unblocked"]
    /\ UNCHANGED <<shutdown_requested_, running_, requestAt>>
    /\ UNCHANGED <<poolVars, tmplVars, forkVars, popVars, regVars, utxoVars, nodeVars, codecVars, vrfVars, callVars, minerVars, closeVars, wireVars, dbVars, cpVars>>

\* The members as constructed; running_ is also what initialize, a friend of
\* AppContext, has left
StopStart ==
    /\ shutdown_requested_ = FALSE
    /\ running_ \in BOOLEAN
    /\ waitAt = [t \in Waiters |-> "out"]
    /\ requestAt = [r \in Requesters |-> "out"]

StopIdle ==
    /\ shutdown_requested_ = FALSE
    /\ running_ = FALSE
    /\ waitAt = [t \in Waiters |-> "out"]
    /\ requestAt = [r \in Requesters |-> "out"]

---------------------------------------------------------------------------
(* Node: the descriptor, statement by statement and thread by thread *)

\* The receive thread, the send thread, a thread that calls Disconnect, and
\* the thread that destroys the Node
SocketThreads == {"receive", "send", "other", "destructor"}

NoIo == [called |-> FALSE]

\* socket_ is a plain int that the threads read and write without a lock: a
\* statement reads the member again or uses what the thread read before
SocketReads(t) == {socket_, disconnectAt[t].fd}

\* The test of the loops of ReceiveLoop and SendLoop: IsConnected()
LoopTest(t) ==
    /\ t \in {"receive", "send"} /\ disconnectAt[t].at = "loop"
    /\ disconnectAt' = [disconnectAt EXCEPT ![t] =
                            IF IsConnected THEN [at |-> "io", fd |-> socket_]
                            ELSE [at |-> "returned", fd |-> socket_]]
    /\ UNCHANGED <<socket_, closeCalls, lastIo>>
    /\ UNCHANGED <<version_sent_, version_received_, send_queue_, receiving, sending, lastFrame, processed>>
    /\ UNCHANGED <<steady_clock, last_recv_, last_send_>>
    /\ UNCHANGED <<poolVars, tmplVars, forkVars, popVars, regVars, utxoVars, codecVars, vrfVars, callVars, minerVars, stopVars, wireVars, dbVars, cpVars>>

\* ReceiveExact: recv(socket_, ...), and what ReceiveLoop does with the frame:
\* it goes on, calls Disconnect (invalid header, bad checksum) or breaks
Recv(outcome) ==
    /\ disconnectAt["receive"].at = "io"
    /\ \E fd \in SocketReads("receive") :
        /\ lastIo' = [called |-> TRUE, call |-> "recv", fd |-> fd, closed |-> closeCalls > 0]
        /\ disconnectAt' = [disconnectAt EXCEPT !["receive"] =
                                [at |-> CASE outcome = "frame" -> "loop"
                                          [] outcome = "invalid" -> "Disconnect"
                                          [] OTHER -> "returned",
                                 fd |-> fd]]
    /\ UNCHANGED <<socket_, closeCalls>>
    /\ UNCHANGED <<version_sent_, version_received_, send_queue_, receiving, sending, lastFrame, processed>>
    /\ UNCHANGED <<steady_clock, last_recv_, last_send_>>
    /\ UNCHANGED <<poolVars, tmplVars, forkVars, popVars, regVars, utxoVars, codecVars, vrfVars, callVars, minerVars, stopVars, wireVars, dbVars, cpVars>>

\* SendExact: send(socket_, ...); SendLoop goes on or breaks
Send(sendOk) ==
    /\ disconnectAt["send"].at = "io"
    /\ \E fd \in SocketReads("send") :
        /\ lastIo' = [called |-> TRUE, call |-> "send", fd |-> fd, closed |-> closeCalls > 0]
        /\ disconnectAt' = [disconnectAt EXCEPT !["send"] =
                                [at |-> IF sendOk THEN "loop" ELSE "returned", fd |-> fd]]
    /\ UNCHANGED <<socket_, closeCalls>>
    /\ UNCHANGED <<version_sent_, version_received_, send_queue_, receiving, sending, lastFrame, processed>>
    /\ UNCHANGED <<steady_clock, last_recv_, last_send_>>
    /\ UNCHANGED <<poolVars, tmplVars, forkVars, popVars, regVars, utxoVars, codecVars, vrfVars, callVars, minerVars, stopVars, wireVars, dbVars, cpVars>>

\* Another thread, or ~Node, calls Disconnect
CallDisconnect(t) ==
    /\ t \in {"other", "destructor"} /\ disconnectAt[t].at = "out"
    /\ disconnectAt' = [disconnectAt EXCEPT ![t].at = "Disconnect"]
    /\ UNCHANGED <<socket_, closeCalls, lastIo>>
    /\ UNCHANGED <<version_sent_, version_received_, send_queue_, receiving, sending, lastFrame, processed>>
    /\ UNCHANGED <<steady_clock, last_recv_, last_send_>>
    /\ UNCHANGED <<poolVars, tmplVars, forkVars, popVars, regVars, utxoVars, codecVars, vrfVars, callVars, minerVars, stopVars, wireVars, dbVars, cpVars>>

\* Where a thread is when Disconnect has returned: ReceiveLoop breaks, the
\* destructor goes on to join the threads
AfterDisconnect(t) ==
    CASE t = "receive" -> "returned"
      [] t = "destructor" -> "destroyed"
      [] OTHER -> "out"

\* Node::Disconnect: if (socket_ != -1)
DisconnectTest(t) ==
    /\ disconnectAt[t].at = "Disconnect"
    /\ disconnectAt' = [disconnectAt EXCEPT ![t] =
                            IF socket_ # -1 THEN [at |-> "shutdown", fd |-> socket_]
                            ELSE [at |-> AfterDisconnect(t), fd |-> socket_]]
    /\ UNCHANGED <<socket_, closeCalls, lastIo>>
    /\ UNCHANGED <<version_sent_, version_received_, send_queue_, receiving, sending, lastFrame, processed>>
    /\ UNCHANGED <<steady_clock, last_recv_, last_send_>>
    /\ UNCHANGED <<poolVars, tmplVars, forkVars, popVars, regVars, utxoVars, codecVars, vrfVars, callVars, minerVars, stopVars, wireVars, dbVars, cpVars>>

\* Node::Disconnect: shutdown(socket_, SHUT_RDWR)
DisconnectShutdown(t) ==
    /\ disconnectAt[t].at = "shutdown"
    /\ \E fd \in SocketReads(t) :
        disconnectAt' = [disconnectAt EXCEPT ![t] = [at |-> "close", fd |-> fd]]
    /\ UNCHANGED <<socket_, closeCalls, lastIo>>
    /\ UNCHANGED <<version_sent_, version_received_, send_queue_, receiving, sending, lastFrame, processed>>
    /\ UNCHANGED <<steady_clock, last_recv_, last_send_>>
    /\ UNCHANGED <<poolVars, tmplVars, forkVars, popVars, regVars, utxoVars, codecVars, vrfVars, callVars, minerVars, stopVars, wireVars, dbVars, cpVars>>

\* Node::Disconnect: close(socket_); close(-1) closes nothing
DisconnectClose(t) ==
    /\ disconnectAt[t].at = "close"
    /\ \E fd \in SocketReads(t) :
        /\ closeCalls' = IF fd # -1 THEN closeCalls + 1 ELSE closeCalls
        /\ disconnectAt' = [disconnectAt EXCEPT ![t] = [at |-> "store", fd |-> fd]]
    /\ UNCHANGED <<socket_, lastIo>>
    /\ UNCHANGED <<version_sent_, version_received_, send_queue_, receiving, sending, lastFrame, processed>>
    /\ UNCHANGED <<steady_clock, last_recv_, last_send_>>
    /\ UNCHANGED <<poolVars, tmplVars, forkVars, popVars, regVars, utxoVars, codecVars, vrfVars, callVars, minerVars, stopVars, wireVars, dbVars, cpVars>>

\* Node::Disconnect: socket_ = -1, and the return
DisconnectStore(t) ==
    /\ disconnectAt[t].at = "store"
    /\ socket_' = -1
    /\ disconnectAt' = [disconnectAt EXCEPT ![t].at = AfterDisconnect(t)]
    /\ UNCHANGED <<closeCalls, lastIo>>
    /\ UNCHANGED <<version_sent_, version_received_, send_queue_, receiving, sending, lastFrame, processed>>
    /\ UNCHANGED <<steady_clock, last_recv_, last_send_>>
    /\ UNCHANGED <<poolVars, tmplVars, forkVars, popVars, regVars, utxoVars, codecVars, vrfVars, callVars, minerVars, stopVars, wireVars, dbVars, cpVars>>

\* A started Node: both loops are at their test, nobody is in Disconnect
CloseStart ==
    /\ disconnectAt = [t \in SocketThreads |->
                          [at |-> IF t \in {"receive", "send"} THEN "loop" ELSE "out", fd |-> socket_]]
    /\ closeCalls = 0
    /\ lastIo = NoIo

CloseIdle ==
    /\ disconnectAt = [t \in SocketThreads |-> [at |-> "out", fd |-> OpenSocket]]
    /\ closeCalls = 0
    /\ lastIo = NoIo

---------------------------------------------------------------------------
(* Node: the send queue, statement by statement and thread by thread *)

\* How many messages one thread pushes
MaxPushes == 2

\* The threads that call PushMessage: the receive thread (ProcessMessage
\* answers), the send thread (ping when idle) and another thread (PushVersion)
PushThreads == {"receive", "send", "other"}

\* What each of them pushes
PushCommand(t) ==
    CASE t = "receive" -> "pong"
      [] t = "send" -> "ping"
      [] OTHER -> "version"

\* The messages a thread has queued
PushedBy(t) == Cardinality({i \in DOMAIN pushed : pushed[i].from = t})

\* The next message of a thread: its command and its payload
NextMessage(t) == [command |-> PushCommand(t), from |-> t, data |-> PushedBy(t)]

NoMessage == [command |-> "", from |-> "", data |-> 0]

\* Node::PushMessage is called: the payload is serialized and the header made
PushMessage(t) ==
    /\ t \in {"receive", "other"} /\ pushAt[t].at = "out"
    /\ PushedBy(t) < MaxPushes
    /\ pushAt' = [pushAt EXCEPT ![t] = [at |-> "lock", msg |-> NextMessage(t)]]
    /\ UNCHANGED <<send_mutex_, sendAt, wire, pushed>>
    /\ UNCHANGED nodeVars
    /\ UNCHANGED <<poolVars, tmplVars, forkVars, popVars, regVars, utxoVars, codecVars, vrfVars, callVars, minerVars, stopVars, closeVars, dbVars, cpVars>>

\* Node::PushMessage: std::lock_guard lock{send_mutex_}
PushLock(t) ==
    /\ pushAt[t].at = "lock"
    /\ send_mutex_ = "free"
    /\ send_mutex_' = t
    /\ pushAt' = [pushAt EXCEPT ![t].at = "emplace_back"]
    /\ UNCHANGED <<sendAt, wire, pushed>>
    /\ UNCHANGED nodeVars
    /\ UNCHANGED <<poolVars, tmplVars, forkVars, popVars, regVars, utxoVars, codecVars, vrfVars, callVars, minerVars, stopVars, closeVars, dbVars, cpVars>>

\* Node::PushMessage: send_queue_.emplace_back, send_cv_.notify_one, and the
\* end of the lock; the send thread goes back to its loop after its ping
PushEmplace(t) ==
    /\ pushAt[t].at = "emplace_back"
    /\ send_queue_' = Append(send_queue_, pushAt[t].msg)
    /\ pushed' = Append(pushed, pushAt[t].msg)
    /\ send_mutex_' = "free"
    /\ pushAt' = [pushAt EXCEPT ![t] = [at |-> "out", msg |-> NoMessage]]
    /\ sendAt' = IF t = "send" THEN [at |-> "loop", msg |-> NoMessage] ELSE sendAt
    /\ UNCHANGED wire
    /\ UNCHANGED <<socket_, version_sent_, version_received_, receiving, sending, lastFrame, processed>>
    /\ UNCHANGED <<steady_clock, last_recv_, last_send_>>
    /\ UNCHANGED <<poolVars, tmplVars, forkVars, popVars, regVars, utxoVars, codecVars, vrfVars, callVars, minerVars, stopVars, closeVars, dbVars, cpVars>>

\* Node::SendLoop: std::unique_lock lock{send_mutex_}
SendLock ==
    /\ sendAt.at = "loop"
    /\ IsConnected
    /\ send_mutex_ = "free"
    /\ send_mutex_' = "send"
    /\ sendAt' = [sendAt EXCEPT !.at = "wait_for"]
    /\ UNCHANGED <<pushAt, wire, pushed>>
    /\ UNCHANGED nodeVars
    /\ UNCHANGED <<poolVars, tmplVars, forkVars, popVars, regVars, utxoVars, codecVars, vrfVars, callVars, minerVars, stopVars, closeVars, dbVars, cpVars>>

\* Node::SendLoop: send_cv_.wait_for finds the queue empty, releases the
\* mutex and blocks
SendBlock ==
    /\ sendAt.at = "wait_for"
    /\ send_queue_ = <<>>
    /\ send_mutex_' = "free"
    /\ sendAt' = [sendAt EXCEPT !.at = "blocked"]
    /\ UNCHANGED <<pushAt, wire, pushed>>
    /\ UNCHANGED nodeVars
    /\ UNCHANGED <<poolVars, tmplVars, forkVars, popVars, regVars, utxoVars, codecVars, vrfVars, callVars, minerVars, stopVars, closeVars, dbVars, cpVars>>

\* Node::SendLoop: send_cv_.wait_for is unblocked (notified, or PING_INTERVAL
\* has passed), takes the mutex again and tests the queue; with an empty queue
\* after PING_INTERVAL it returns false, and SendLoop unlocks and pushes a ping
SendWake(timeout) ==
    /\ sendAt.at = "blocked"
    /\ send_mutex_ = "free"
    /\ IF send_queue_ # <<>>
       THEN /\ send_mutex_' = "send"
            /\ sendAt' = [sendAt EXCEPT !.at = "wait_for"]
            /\ UNCHANGED pushAt
       ELSE /\ timeout
            /\ PushedBy("send") < MaxPushes
            /\ sendAt' = [sendAt EXCEPT !.at = "PushMessage"]
            /\ pushAt' = [pushAt EXCEPT !["send"] = [at |-> "lock", msg |-> NextMessage("send")]]
            /\ UNCHANGED send_mutex_
    /\ UNCHANGED <<wire, pushed>>
    /\ UNCHANGED nodeVars
    /\ UNCHANGED <<poolVars, tmplVars, forkVars, popVars, regVars, utxoVars, codecVars, vrfVars, callVars, minerVars, stopVars, closeVars, dbVars, cpVars>>

\* A send thread that takes the front of the queue and leaves it there
SendTakeKeeping ==
    /\ sendAt.at = "wait_for"
    /\ send_queue_ # <<>>
    /\ sendAt' = [at |-> "header", msg |-> Head(send_queue_)]
    /\ send_mutex_' = "free"
    /\ UNCHANGED <<pushAt, wire, pushed>>
    /\ UNCHANGED nodeVars
    /\ UNCHANGED <<poolVars, tmplVars, forkVars, popVars, regVars, utxoVars, codecVars, vrfVars, callVars, minerVars, stopVars, closeVars, dbVars, cpVars>>

\* Node::SendLoop: auto [command, data] = std::move(send_queue_.front());
\* send_queue_.pop_front(); lock.unlock()
SendTake ==
    /\ sendAt.at = "wait_for"
    /\ send_queue_ # <<>>
    /\ sendAt' = [at |-> "header", msg |-> Head(send_queue_)]
    /\ send_queue_' = Tail(send_queue_)
    /\ send_mutex_' = "free"
    /\ UNCHANGED <<pushAt, wire, pushed>>
    /\ UNCHANGED <<socket_, version_sent_, version_received_, receiving, sending, lastFrame, processed>>
    /\ UNCHANGED <<steady_clock, last_recv_, last_send_>>
    /\ UNCHANGED <<poolVars, tmplVars, forkVars, popVars, regVars, utxoVars, codecVars, vrfVars, callVars, minerVars, stopVars, closeVars, dbVars, cpVars>>

\* Node::SendLoop: SendExact(header_bytes.data(), 24), and the break when it
\* fails
SendHeader(sendOk) ==
    /\ sendAt.at = "header"
    /\ sendAt' = [sendAt EXCEPT !.at = IF sendOk THEN "payload" ELSE "returned"]
    /\ UNCHANGED <<send_mutex_, pushAt, wire, pushed>>
    /\ UNCHANGED nodeVars
    /\ UNCHANGED <<poolVars, tmplVars, forkVars, popVars, regVars, utxoVars, codecVars, vrfVars, callVars, minerVars, stopVars, closeVars, dbVars, cpVars>>

\* Node::SendLoop: SendExact(data.data(), data.size()): the message is on the
\* socket when it succeeds, and the loop breaks when it fails
SendPayload(sendOk) ==
    /\ sendAt.at = "payload"
    /\ IF sendOk
       THEN /\ wire' = Append(wire, sendAt.msg)
            /\ sendAt' = [at |-> "loop", msg |-> NoMessage]
       ELSE /\ sendAt' = [sendAt EXCEPT !.at = "returned"]
            /\ UNCHANGED wire
    /\ UNCHANGED <<send_mutex_, pushAt, pushed>>
    /\ UNCHANGED nodeVars
    /\ UNCHANGED <<poolVars, tmplVars, forkVars, popVars, regVars, utxoVars, codecVars, vrfVars, callVars, minerVars, stopVars, closeVars, dbVars, cpVars>>

\* A started Node with an empty queue
WireStart ==
    /\ send_mutex_ = "free"
    /\ pushAt = [t \in PushThreads |-> [at |-> "out", msg |-> NoMessage]]
    /\ sendAt = [at |-> "loop", msg |-> NoMessage]
    /\ wire = <<>>
    /\ pushed = <<>>

WireIdle == WireStart

---------------------------------------------------------------------------
(* CDB: the transactions of a database *)

\* How many transactions are begun
MaxTxns == 3

\* nullptr as a DbTxn*
NullTxn == 0

\* What a Berkeley DB call returns: 0, or an error
DbReturns == {0, 1}

\* A GetTxn that yields the outermost transaction
GetTxnOutermost == IF vTxn = <<>> THEN NullTxn ELSE Head(vTxn)

\* CDB::GetTxn
GetTxn == IF vTxn = <<>> THEN NullTxn ELSE vTxn[Len(vTxn)]

\* CDB::TxnBegin; txn_begin makes a transaction that is a child of the one
\* it is given
TxnBegin(ret) ==
    /\ Len(txns) < MaxTxns
    /\ IF ~pdb \/ ret # 0
       THEN /\ lastDb' = [called |-> TRUE, call |-> "TxnBegin", txn |-> GetTxn, value |-> FALSE]
            /\ UNCHANGED <<vTxn, txns>>
       ELSE LET ptxn == Len(txns) + 1
            IN  /\ txns' = Append(txns, [parent |-> GetTxn, state |-> "open"])
                /\ vTxn' = Append(vTxn, ptxn)
                /\ lastDb' = [called |-> TRUE, call |-> "TxnBegin", txn |-> GetTxn, value |-> TRUE]
    /\ UNCHANGED <<pdb, fReadOnly>>
    /\ UNCHANGED <<poolVars, tmplVars, forkVars, popVars, regVars, utxoVars, nodeVars, codecVars, vrfVars, callVars, minerVars, stopVars, closeVars, wireVars, cpVars>>

\* CDB::TxnCommit and CDB::TxnAbort: vTxn.back()->commit(0) or ->abort(), then
\* vTxn.pop_back(); the transaction is over whatever the call returns
TxnEnd(call, ret) ==
    /\ call \in {"TxnCommit", "TxnAbort"}
    /\ IF ~pdb \/ vTxn = <<>>
       THEN /\ lastDb' = [called |-> TRUE, call |-> call, txn |-> NullTxn, value |-> FALSE]
            /\ UNCHANGED <<vTxn, txns>>
       ELSE /\ txns' = [txns EXCEPT ![vTxn[Len(vTxn)]].state =
                            IF call = "TxnCommit" /\ ret = 0 THEN "committed" ELSE "aborted"]
            /\ vTxn' = SubSeq(vTxn, 1, Len(vTxn) - 1)
            /\ lastDb' = [called |-> TRUE, call |-> call, txn |-> vTxn[Len(vTxn)], value |-> ret = 0]
    /\ UNCHANGED <<pdb, fReadOnly>>
    /\ UNCHANGED <<poolVars, tmplVars, forkVars, popVars, regVars, utxoVars, nodeVars, codecVars, vrfVars, callVars, minerVars, stopVars, closeVars, wireVars, cpVars>>

\* CDB::Read, Write, Erase and Exists: pdb->get, put, del and exists with
\* GetTxn(); Write and Erase return before the call on a read-only database
Access(call, ret) ==
    /\ call \in {"Read", "Write", "Erase", "Exists"}
    /\ IF ~pdb \/ (fReadOnly /\ call \in {"Write", "Erase"})
       THEN lastDb' = [called |-> TRUE, call |-> call, reached |-> FALSE, txn |-> NullTxn, value |-> FALSE]
       ELSE lastDb' = [called |-> TRUE, call |-> call, reached |-> TRUE, txn |-> GetTxn, value |-> ret = 0]
    /\ lastDb' # lastDb
    /\ UNCHANGED <<pdb, fReadOnly, vTxn, txns>>
    /\ UNCHANGED <<poolVars, tmplVars, forkVars, popVars, regVars, utxoVars, nodeVars, codecVars, vrfVars, callVars, minerVars, stopVars, closeVars, wireVars, cpVars>>

\* A CDB as constructed: open or not, read-only or not, no transaction
DbStart ==
    /\ pdb \in BOOLEAN
    /\ fReadOnly \in BOOLEAN
    /\ vTxn = <<>>
    /\ txns = <<>>
    /\ lastDb = NoCall

DbIdle ==
    /\ pdb = FALSE
    /\ fReadOnly = FALSE
    /\ vTxn = <<>>
    /\ txns = <<>>
    /\ lastDb = NoCall

---------------------------------------------------------------------------
(* PoPCheckpoints: the list of checkpoints *)

CHECKPOINT_INTERVAL == 10000

\* How many times the historical checkpoints are loaded, and how many
\* checkpoints are added after them
MaxLoads == 2

MaxAdded == 2

\* The heights MaybeAddCheckpoint is called with, and the best heights then
CheckpointHeights == {0, CHECKPOINT_INTERVAL, CHECKPOINT_INTERVAL + 5000, 100000, 3510000}

CheckpointBestHeights == {CHECKPOINT_INTERVAL + FINALITY_DEPTH - 1, CHECKPOINT_INTERVAL + FINALITY_DEPTH,
                          3510000 + FINALITY_DEPTH}

\* The heights LoadHistoricalCheckpoints pushes, in the order of the pushes
HistoricalHeights == <<0, 100000, 1000000, 3000000, 3500000>>

\* The checkpoints of the list that were added by MaybeAddCheckpoint
Added == {i \in DOMAIN checkpoints : checkpoints[i].automatic}

\* PoPCheckpoints::Initialize: LoadHistoricalCheckpoints
Initialize ==
    /\ Len(checkpoints) - Cardinality(Added) < MaxLoads * Len(HistoricalHeights)
    /\ checkpoints' = checkpoints \o
            [i \in DOMAIN HistoricalHeights |->
                [height |-> HistoricalHeights[i], automatic |-> FALSE, best |-> nBestHeight]]
    /\ lastCheckpointHeight' = HistoricalHeights[Len(HistoricalHeights)]
    /\ UNCHANGED <<poolVars, tmplVars, forkVars, popVars, regVars, utxoVars, nodeVars, codecVars, vrfVars, callVars, minerVars, stopVars, closeVars, wireVars, dbVars>>

\* PoPCheckpoints::MaybeAddCheckpoint(nHeight, hash)
MaybeAddCheckpoint(nHeight) ==
    /\ Cardinality(Added) < MaxAdded
    /\ nHeight % CHECKPOINT_INTERVAL = 0
    /\ ~(nBestHeight - nHeight < FINALITY_DEPTH)
    /\ checkpoints' = Append(checkpoints, [height |-> nHeight, automatic |-> TRUE, best |-> nBestHeight])
    /\ lastCheckpointHeight' = nHeight
    /\ UNCHANGED <<poolVars, tmplVars, forkVars, popVars, regVars, utxoVars, nodeVars, codecVars, vrfVars, callVars, minerVars, stopVars, closeVars, wireVars, dbVars>>

\* The best chain changes between the calls
CheckpointBestHeight(nHeight) ==
    /\ nBestHeight' = nHeight
    /\ UNCHANGED <<mapTransactions, mapNextTx, feeSys, pblock, lastAccept>>
    /\ UNCHANGED <<checkpoints, lastCheckpointHeight>>
    /\ UNCHANGED <<tmplVars, forkVars, popVars, regVars, utxoVars, nodeVars, codecVars, vrfVars, callVars, minerVars, stopVars, closeVars, wireVars, dbVars>>

\* A PoPCheckpoints as constructed
CpStart ==
    /\ checkpoints = <<>>
    /\ lastCheckpointHeight = 0

CpIdle == CpStart

---------------------------------------------------------------------------
(* Specifications: one for each part of the node, the others at rest *)

PoolInit == PoolStart /\ TmplIdle /\ ForkIdle /\ PopIdle /\ RegIdle /\ UtxoIdle /\ NodeIdle /\ CodecIdle /\ VrfIdle /\ CallIdle /\ MinerIdle /\ StopIdle /\ CloseIdle /\ WireIdle /\ DbIdle /\ CpIdle

PoolNext ==
    \/ \E tx \in TxUniverse, fCheckInputs \in BOOLEAN : AcceptToMemoryPool(tx, fCheckInputs)
    \/ CreateNewBlock
    \/ ParticipationMiner

SpecPool == PoolInit /\ [][PoolNext]_vars

TemplateInit == PoolIdle /\ TmplStart /\ ForkIdle /\ PopIdle /\ RegIdle /\ UtxoIdle /\ NodeIdle /\ CodecIdle /\ VrfIdle /\ CallIdle /\ MinerIdle /\ StopIdle /\ CloseIdle /\ WireIdle /\ DbIdle /\ CpIdle

TemplateNext == BuildBlockTemplate

SpecTemplate == TemplateInit /\ [][TemplateNext]_vars

ForkInit == PoolIdle /\ TmplIdle /\ ForkStart /\ PopIdle /\ RegIdle /\ UtxoIdle /\ NodeIdle /\ CodecIdle /\ VrfIdle /\ CallIdle /\ MinerIdle /\ StopIdle /\ CloseIdle /\ WireIdle /\ DbIdle /\ CpIdle

ForkNext ==
    \/ \E nHeight \in ForkHeights, blockHash \in BlockHashes : CheckActivation(nHeight, blockHash)
    \/ \E block \in ForkBlocks, nHeight \in ForkHeights : ProcessHardFork(block, nHeight)

SpecFork == ForkInit /\ [][ForkNext]_vars

PopInit == PoolIdle /\ TmplIdle /\ ForkIdle /\ PopStart /\ RegIdle /\ UtxoIdle /\ NodeIdle /\ CodecIdle /\ VrfIdle /\ CallIdle /\ MinerIdle /\ StopIdle /\ CloseIdle /\ WireIdle /\ DbIdle /\ CpIdle

PopNext ==
    \/ Tick
    \/ \E public_key \in PublicKeys : TryGenerateBlock(public_key)
    \/ \E d \in CandidateTimeOffsets, key \in PublicKeys, proof \in LotteryResults :
          ProofOfParticipation_ValidateBlock(
              [timestamp |-> clock + d, producer_key |-> key, lottery_proof |-> proof])
    \/ \E d \in BlockTimeOffsets, p \in ParentTimeOffsets, vrf \in VrfProofs, txOk \in BOOLEAN,
          nHeight \in {HARD_FORK_HEIGHT} :
          PoPSecurity_ValidateBlock([vrf |-> vrf, nTime |-> clock + d, prevTime |-> clock + p,
                                     txOk |-> txOk], nHeight)

SpecPop == PopInit /\ [][PopNext]_vars

RegInit == PoolIdle /\ TmplIdle /\ ForkIdle /\ PopIdle /\ RegStart /\ UtxoIdle /\ NodeIdle /\ CodecIdle /\ VrfIdle /\ CallIdle /\ MinerIdle /\ StopIdle /\ CloseIdle /\ WireIdle /\ DbIdle /\ CpIdle

RegNext ==
    \/ \E entry \in ParticipationEntries : addParticipant(entry)
    \/ \E txid \in 1..MaxTxid : removeParticipant(txid)
    \/ \E currentHeight \in QueryHeights : getActiveParticipants(currentHeight)
    \/ \E previousBlockHash \in {1, 2}, currentHeight \in QueryHeights :
          checkParticipation(1, previousBlockHash, currentHeight)

SpecRegistry == RegInit /\ [][RegNext]_vars

UtxoInit == PoolIdle /\ TmplIdle /\ ForkIdle /\ PopIdle /\ RegIdle /\ UtxoStart /\ NodeIdle /\ CodecIdle /\ VrfIdle /\ CallIdle /\ MinerIdle /\ StopIdle /\ CloseIdle /\ WireIdle /\ DbIdle /\ CpIdle

UtxoNext == \E current_height \in CurrentHeights : IsMatureCall(current_height)

SpecUtxo == UtxoInit /\ [][UtxoNext]_vars

NodeInit == PoolIdle /\ TmplIdle /\ ForkIdle /\ PopIdle /\ RegIdle /\ UtxoIdle /\ NodeStart /\ CodecIdle /\ VrfIdle /\ CallIdle /\ MinerIdle /\ StopIdle /\ CloseIdle /\ WireIdle /\ DbIdle /\ CpIdle

NodeNext ==
    \/ Start
    \/ Disconnect
    \/ PushVersion
    \/ \E frame \in Frames : ReceiveLoop(frame)
    \/ ReceiveLoopReturns
    \/ \E sendOk \in BOOLEAN : SendLoop(sendOk)
    \/ SendLoopReturns

SpecNode == NodeInit /\ [][NodeNext]_vars

\* The frames received while the end of the tasks is followed: no payload, a
\* right or a wrong magic, a right or a wrong checksum
TaskFrames == {frame \in Frames : frame.payload_size = 0 /\ frame.body = 0 /\ frame.checksum \in {0, 1}}

TaskNext ==
    \/ Start
    \/ Disconnect
    \/ PushVersion
    \/ \E frame \in TaskFrames : ReceiveLoop(frame)
    \/ ReceiveLoopReturns
    \/ \E sendOk \in BOOLEAN : SendLoop(sendOk)
    \/ SendLoopReturns

\* The loops of a closed socket go on: recv on a socket that was shut down
\* returns at once, and the wait of SendLoop ends after PING_INTERVAL
SpecNodeFair ==
    /\ NodeInit
    /\ [][TaskNext]_vars
    /\ WF_vars(~IsConnected /\ ReceiveLoopReturns)
    /\ WF_vars(SendLoopReturns)

CodecInit ==
    PoolIdle /\ TmplIdle /\ ForkIdle /\ PopIdle /\ RegIdle /\ UtxoIdle /\ NodeIdle /\ CodecStart /\ VrfIdle /\ CallIdle /\ MinerIdle /\ StopIdle /\ CloseIdle /\ WireIdle /\ DbIdle /\ CpIdle

CodecNext ==
    \/ \E n \in CompactValues : Serialize(n)
    \/ Deserialize
    \/ DeserializeString
    \/ DeserializeVector
    \/ reset

SpecCodec == CodecInit /\ [][CodecNext]_vars

VrfInit ==
    /\ PoolIdle /\ TmplIdle /\ ForkIdle /\ PopIdle /\ RegIdle /\ UtxoIdle /\ NodeIdle /\ CodecIdle
    /\ LotteryStart /\ VrfStart /\ SelectIdle /\ CallIdle /\ MinerIdle /\ StopIdle /\ CloseIdle /\ WireIdle /\ DbIdle /\ CpIdle

VrfNext ==
    \/ \E total_participating_stake \in TotalStakes : ComputeLotteryCall(total_participating_stake)
    \/ \E block_seed \in {lotteryInput.block_seed, [low |-> 0, high |-> 0]},
          participant_key \in PublicKeys :
          VerifyLotteryCall(block_seed, participant_key)
    \/ GenerateCall
    \/ \E publicKey \in VrfPublicKeys, input \in VrfInputs : VerifyCall(publicKey, input)

SpecVrf == VrfInit /\ [][VrfNext]_vars

StakeInit ==
    /\ PoolIdle /\ TmplIdle /\ ForkIdle /\ PopIdle /\ RegIdle /\ UtxoIdle /\ NodeIdle /\ CodecIdle
    /\ LotteryStart /\ GenerateIdle /\ SelectStart /\ CallIdle /\ MinerIdle /\ StopIdle /\ CloseIdle /\ WireIdle /\ DbIdle /\ CpIdle

StakeNext ==
    \/ \E total_participating_stake \in TotalStakes : ComputeLotteryCall(total_participating_stake)
    \/ \E amounts \in {<<>>} \cup [1..MaxParticipants -> StakeAmounts] : SelectWinnerCall(amounts)

SpecStake == StakeInit /\ [][StakeNext]_vars

AtRest ==
    /\ PoolIdle /\ TmplIdle /\ ForkIdle /\ PopIdle /\ RegIdle /\ UtxoIdle /\ NodeIdle /\ CodecIdle
    /\ VrfIdle /\ MinerIdle /\ StopIdle /\ CloseIdle /\ WireIdle /\ DbIdle /\ CpIdle

BlockInit == AtRest /\ BlockStart

BlockNext == CheckBlockCall

SpecBlock == BlockInit /\ [][BlockNext]_vars

ClusterInit == AtRest /\ ClusterStart

ClusterNext ==
    \/ AnalyzeCall
    \/ ShouldAllowCall

SpecCluster == ClusterInit /\ [][ClusterNext]_vars

RewardInit == AtRest /\ RewardStart

RewardNext ==
    \/ GetBlockValueCall
    \/ goldcoin_GetBlockValueCall

SpecReward == RewardInit /\ [][RewardNext]_vars

MinerInit ==
    /\ TmplIdle /\ ForkIdle /\ PopIdle /\ RegStart /\ UtxoIdle /\ NodeIdle /\ CodecIdle /\ VrfIdle
    /\ CallIdle /\ StopIdle /\ CloseIdle /\ WireIdle /\ DbIdle /\ CpIdle
    /\ mapTransactions = {}
    /\ mapNextTx = <<>>
    /\ feeSys = OnNewBlock
    /\ nBestHeight \in {0 - 1, STAKE_MATURITY - 1}
    /\ pblock = NoBlock
    /\ lastAccept = NoAccept
    /\ MinerStart

MinerNext ==
    \/ MinerWake
    \/ MinerWaitForPeers
    \/ MinerCheckStake
    \/ MinerReadBest
    \/ MinerCheckParticipation
    \/ MinerCreateBlock
    \/ MinerProcessBlock
    \/ PeersChange
    \/ \E nStake \in WalletStakes : WalletChanges(nStake)
    \/ \E hash \in 0..1 : NewBestBlock(hash)
    \/ StopMiner
    \/ \E entry \in MinerEntries : addParticipant(entry)
    \/ \E txid \in 1..MaxTxid : removeParticipant(txid)

SpecMiner == MinerInit /\ [][MinerNext]_vars

ValueInit == AtRest /\ ValueStart

ValueNext == GetValueOutCall

SpecValue == ValueInit /\ [][ValueNext]_vars

FinalityInit ==
    /\ TmplIdle /\ ForkIdle /\ PopIdle /\ RegIdle /\ UtxoIdle /\ NodeIdle /\ CodecIdle /\ VrfIdle
    /\ MinerIdle /\ StopIdle /\ CloseIdle /\ WireIdle /\ DbIdle /\ CpIdle
    /\ mapTransactions = {}
    /\ mapNextTx = <<>>
    /\ feeSys = OnNewBlock
    /\ nBestHeight \in FinalityHeights
    /\ pblock = NoBlock
    /\ lastAccept = NoAccept
    /\ FinalityStart

FinalityNext == IsBlockFinalizedCall

SpecFinality == FinalityInit /\ [][FinalityNext]_vars

\* The statements of ParticipationMiner
MinerStep ==
    \/ MinerWake
    \/ MinerWaitForPeers
    \/ MinerCheckStake
    \/ MinerReadBest
    \/ MinerCheckParticipation
    \/ MinerCreateBlock
    \/ MinerProcessBlock

\* The thread of ParticipationMiner goes on: its sleeps end and the calls it
\* makes return
\* The miner beside the other threads, its own entry being the only one that
\* is registered and removed
ShutdownNext ==
    \/ MinerStep
    \/ PeersChange
    \/ \E nStake \in WalletStakes : WalletChanges(nStake)
    \/ \E hash \in 0..1 : NewBestBlock(hash)
    \/ StopMiner
    \/ \E entry \in {e \in MinerEntries : e.address = MinerAddress} : addParticipant(entry)
    \/ removeParticipant(MinerAddress)

SpecMinerFair == MinerInit /\ [][ShutdownNext]_vars /\ WF_vars(MinerStep)

StopInit ==
    /\ PoolIdle /\ TmplIdle /\ ForkIdle /\ PopIdle /\ RegIdle /\ UtxoIdle /\ NodeIdle /\ CodecIdle
    /\ VrfIdle /\ MinerIdle /\ CallIdle /\ StopStart /\ CloseIdle /\ WireIdle /\ DbIdle /\ CpIdle

StopNext ==
    \/ \E r \in Requesters : StoreNotRunning(r)
    \/ \E r \in Requesters : StoreRequested(r)
    \/ \E r \in Requesters : NotifyAll(r)
    \/ \E t \in Waiters : Wait(t)
    \/ \E t \in Waiters : SpuriousWake(t)

\* A requesting thread goes on from its store to its notify_all, and a thread
\* that was unblocked goes on to compare
SpecStopFair ==
    /\ StopInit
    /\ [][StopNext]_vars
    /\ \A r \in Requesters : WF_vars(NotifyAll(r))
    /\ \A t \in Waiters : WF_vars(waitAt[t] = "unblocked" /\ Wait(t))

CloseInit ==
    /\ PoolIdle /\ TmplIdle /\ ForkIdle /\ PopIdle /\ RegIdle /\ UtxoIdle /\ NodeStart /\ CodecIdle
    /\ VrfIdle /\ MinerIdle /\ CallIdle /\ StopIdle /\ CloseStart /\ WireIdle /\ DbIdle /\ CpIdle

CloseNext ==
    \/ \E t \in SocketThreads : LoopTest(t)
    \/ \E outcome \in {"frame", "invalid", "end"} : Recv(outcome)
    \/ \E sendOk \in BOOLEAN : Send(sendOk)
    \/ \E t \in SocketThreads : CallDisconnect(t)
    \/ \E t \in SocketThreads : DisconnectTest(t)
    \/ \E t \in SocketThreads : DisconnectShutdown(t)
    \/ \E t \in SocketThreads : DisconnectClose(t)
    \/ \E t \in SocketThreads : DisconnectStore(t)

SpecClose == CloseInit /\ [][CloseNext]_vars

WireInit ==
    /\ PoolIdle /\ TmplIdle /\ ForkIdle /\ PopIdle /\ RegIdle /\ UtxoIdle /\ NodeStart /\ CodecIdle
    /\ VrfIdle /\ MinerIdle /\ CallIdle /\ StopIdle /\ CloseIdle /\ WireStart /\ DbIdle /\ CpIdle

WireNext ==
    \/ \E t \in PushThreads : PushMessage(t)
    \/ \E t \in PushThreads : PushLock(t)
    \/ \E t \in PushThreads : PushEmplace(t)
    \/ SendLock
    \/ SendBlock
    \/ \E timeout \in BOOLEAN : SendWake(timeout)
    \/ SendTake
    \/ \E sendOk \in BOOLEAN : SendHeader(sendOk)
    \/ \E sendOk \in BOOLEAN : SendPayload(sendOk)

SpecWire == WireInit /\ [][WireNext]_vars

DbInit ==
    /\ PoolIdle /\ TmplIdle /\ ForkIdle /\ PopIdle /\ RegIdle /\ UtxoIdle /\ NodeIdle /\ CodecIdle
    /\ VrfIdle /\ MinerIdle /\ CallIdle /\ StopIdle /\ CloseIdle /\ WireIdle /\ DbStart /\ CpIdle

DbNext ==
    \/ \E ret \in DbReturns : TxnBegin(ret)
    \/ \E call \in {"TxnCommit", "TxnAbort"}, ret \in DbReturns : TxnEnd(call, ret)
    \/ \E call \in {"Read", "Write", "Erase", "Exists"}, ret \in DbReturns : Access(call, ret)

SpecDb == DbInit /\ [][DbNext]_vars

CpInit ==
    /\ mapTransactions = {} /\ mapNextTx = <<>> /\ feeSys = OnNewBlock /\ pblock = NoBlock
    /\ lastAccept = NoAccept /\ nBestHeight \in CheckpointBestHeights
    /\ TmplIdle /\ ForkIdle /\ PopIdle /\ RegIdle /\ UtxoIdle /\ NodeIdle /\ CodecIdle
    /\ VrfIdle /\ MinerIdle /\ CallIdle /\ StopIdle /\ CloseIdle /\ WireIdle /\ DbIdle /\ CpStart

CpNext ==
    \/ Initialize
    \/ \E nHeight \in CheckpointHeights : MaybeAddCheckpoint(nHeight)
    \/ \E nHeight \in CheckpointBestHeights : CheckpointBestHeight(nHeight)

SpecCp == CpInit /\ [][CpNext]_vars
---------------------------------------------------------------------------
(* Claims *)

\* C1: no two distinct transactions of the memory pool spend the same
\* outpoint: a transaction spending an outpoint a pooled transaction already
\* spends is rejected.
C1_NoPooledDoubleSpend ==
    \A a, b \in mapTransactions : a # b => a.vin \cap b.vin = {}

\* C2: whatever mempool BuildBlockTemplate is given, every transaction of
\* free_transactions has qualifies_for_free set, and their sizes add up to at
\* most FREE_ZONE_SIZE, which is 5% of MAX_BLOCK_SIZE rounded down (1,600,000).
C2_FreeZoneWithinBounds ==
    blockTemplate.built =>
        /\ \A i \in DOMAIN blockTemplate.block.free_transactions :
               blockTemplate.block.free_transactions[i].priority_info.qualifies_for_free
        /\ SizeOf(blockTemplate.block.free_transactions) <= 1600000
        /\ FREE_ZONE_SIZE = 1600000

\* A template whose free zone is full to the last byte, built from a mempool
\* with one more candidate that qualifies and did not fit
C2_Witness ==
    /\ blockTemplate.built
    /\ SizeOf(blockTemplate.block.free_transactions) = FREE_ZONE_SIZE
    /\ \E i \in DOMAIN mempool :
           /\ mempool[i].priority_info.qualifies_for_free
           /\ mempool[i] \notin Range(blockTemplate.block.free_transactions)

\* C3: a transaction whose priority is at least the threshold (GetPriority
\* gives the priority as a fraction of the threshold) passes
\* HybridFeeSystem::ValidateTransaction whatever fee it pays and however full
\* the block counter is.
C3_FreeEligibleAlwaysValidated ==
    (/\ lastAccept.called
     /\ ~FracLess(GetPriority(lastAccept.tx).num, GetPriority(lastAccept.tx).den, 1, 1))
    => lastAccept.feeOk

\* C4: a block or block candidate whose participation proof verifies but whose
\* lottery output does not win is rejected by the validation.
C4_LotteryLossRejected ==
    /\ (/\ lastValidation.by = "ProofOfParticipation"
        /\ VerifyLottery(lastValidation.candidate.lottery_proof, lastValidation.seed,
                         lastValidation.candidate.producer_key)
        /\ ~IsWinningHash(lastValidation.candidate.lottery_proof.hash))
       => lastValidation.result # "true"
    /\ (lastValidation.by = "PoPSecurity" /\ lastValidation.block.vrf = "loses")
       => ~lastValidation.result

\* C5: getActiveParticipants(H) returns exactly the registered entries whose
\* amount is at least MINIMUM_STAKE and whose stake is at least STAKE_MATURITY
\* blocks old at H; no other entry is among those selectWinner draws from.
C5_ActiveAreEligible ==
    lastActive.called =>
        LET Eligible(p) ==
                /\ p.amount >= 100 * COIN
                /\ lastActive.currentHeight - p.height >= 1440
        IN  lastActive.matured = SelectSeq(lastActive.registry, Eligible)

\* C6: HardForkManager::ValidateBlock applies the participation rules to a
\* block of height h iff h >= 3,500,000 and the proof-of-work rules otherwise,
\* whether or not the activation flag is set.
C6_RulesFollowHeight ==
    lastForkValidation.called =>
        (lastForkValidation.rules = "PoP" <=> lastForkValidation.nHeight >= 3500000)
        /\ (lastForkValidation.rules = "PoW" <=> lastForkValidation.nHeight < 3500000)

\* A block below the activation height validated under the proof-of-work
\* rules after the flag was set
C6_Witness ==
    /\ lastForkValidation.called
    /\ lastForkValidation.fActivated
    /\ lastForkValidation.nHeight < HARD_FORK_HEIGHT
    /\ lastForkValidation.rules = "PoW"

\* C7: the coinbase of a block assembled by ParticipationMiner or
\* CreateNewBlock is worth at most the subsidy of its height plus the fees of
\* the transactions the block includes.
C7_CoinbaseWithinSubsidyAndFees ==
    pblock.by # "none" =>
        pblock.nValue <= GetBlockValue(pblock.nHeight, 0) + BlockFees(pblock.vtx)

\* A block of ParticipationMiner that collects a fee and leaves a fee-paying
\* pooled transaction out
C7_Witness ==
    /\ pblock.by = "ParticipationMiner"
    /\ BlockFees(pblock.vtx) > 0
    /\ \E tx \in mapTransactions : tx \notin Range(pblock.vtx) /\ TxFee(tx) > 0

\* C8: is_mature(current_height) is true iff the output is not a coinbase
\* output or current_height >= height + 100; a coinbase output of height h is
\* immature at every height below h + 100.
C8_MatureIffNotCoinbaseOrAged ==
    lastMature.called =>
        /\ lastMature.result <=>
               (~utxo.is_coinbase \/ lastMature.current_height >= utxo.height + 100)
        /\ (utxo.is_coinbase /\ lastMature.current_height < utxo.height + 100)
               => ~lastMature.result

\* A coinbase output asked about at exactly its height plus 100, and mature
C8_Witness ==
    /\ lastMature.called
    /\ utxo.is_coinbase
    /\ lastMature.current_height = utxo.height + COINBASE_MATURITY
    /\ lastMature.result

\* C9: a node is fully connected only after a version message and a verack
\* message have both been received from the peer.
C9_ReadyOnlyAfterVersionAndVerack ==
    IsFullyConnected => {"version", "verack"} \subseteq processed

C11_SilentPeerDisconnected ==
    (IsConnected /\ receiving = "running" /\ sending = "running")
    => steady_clock - last_recv_ < TIMEOUT + PING_INTERVAL

\* C12: the send queue is bounded and a push onto a full queue disconnects the
\* peer: while the peer is connected, some capacity below the longest queue
\* followed here is never exceeded.
C12_SendQueueBounded ==
    IsConnected => \E capacity \in 1..(MaxQueue - 1) : Len(send_queue_) <= capacity

\* C13: for every n, serializing CompactSize(n) and deserializing from where
\* it was written yields n, and serialize writes encoded_size() bytes: 1, 3, 5
\* or 9.
C13_RoundTripAllValues ==
    (/\ lastSerialize.called /\ lastSerialize.error = "none"
     /\ lastDeserialize.called /\ lastDeserialize.decoder = "CompactSize"
     /\ lastDeserialize.from = lastSerialize.from)
    =>  /\ lastDeserialize.error = "none"
        /\ lastDeserialize.value = lastSerialize.value
        /\ lastSerialize.to - lastSerialize.from = encoded_size(lastSerialize.value)
        /\ encoded_size(lastSerialize.value) \in {1, 3, 5, 9}

\* C13, amended: serialize writes encoded_size() bytes for every n; reading
\* them back yields n when n is at most MAX_SIZE, and fails with
\* size_too_large when n is greater.
C13_RoundTripUpToMaxSize ==
    (/\ lastSerialize.called /\ lastSerialize.error = "none"
     /\ lastDeserialize.called /\ lastDeserialize.decoder = "CompactSize"
     /\ lastDeserialize.from = lastSerialize.from)
    =>  /\ lastSerialize.to - lastSerialize.from = encoded_size(lastSerialize.value)
        /\ encoded_size(lastSerialize.value) \in {1, 3, 5, 9}
        /\ IF U64LessEq(lastSerialize.value, U64(33554432))
           THEN /\ lastDeserialize.error = "none"
                /\ lastDeserialize.value = lastSerialize.value
           ELSE lastDeserialize.error = "size_too_large"

\* MAX_SIZE itself was written in five bytes and read back
C13_Witness ==
    /\ lastSerialize.called /\ lastSerialize.error = "none"
    /\ lastSerialize.value = U64(MAX_SIZE)
    /\ lastSerialize.to - lastSerialize.from = 5
    /\ lastDeserialize.called /\ lastDeserialize.decoder = "CompactSize"
    /\ lastDeserialize.from = lastSerialize.from
    /\ lastDeserialize.error = "none"
    /\ lastDeserialize.value = U64(MAX_SIZE)

\* C14: CompactSize::deserialize returns no value above MAX_SIZE; every
\* decoder fails with unexpected_end on a buffer shorter than its prefix
\* announces and with size_too_large on a size above MAX_SIZE; a string or a
\* vector is returned only whole, with as many elements as the prefix
\* announces, and fails with unexpected_end when the buffer holds fewer.
C14_DecodersFailWhole ==
    lastDeserialize.called =>
        LET d      == lastDeserialize
            input  == d.input
            need   == IF input = <<>> THEN 1
                      ELSE IF input[1] < 253 THEN 1
                      ELSE IF input[1] = 253 THEN 3
                      ELSE IF input[1] = 254 THEN 5 ELSE 9
            size   == IF need = 1 THEN ZeroExtend(SubSeq(input, 1, 1))
                      ELSE ZeroExtend(SubSeq(input, 2, need))
            rest   == Len(input) - need
            width  == IF d.decoder = "vector" THEN 2 ELSE 1
        IN  /\ (d.decoder = "CompactSize" /\ d.error = "none")
                   => U64LessEq(d.value, U64(33554432))
            /\ Len(input) < need => d.error = "unexpected_end"
            /\ (Len(input) >= need /\ need > 1 /\ U64Less(U64(33554432), size))
                   => d.error = "size_too_large"
            /\ (d.decoder # "CompactSize" /\ d.error = "none")
                   => /\ Len(d.value) = ToSize(size)
                      /\ rest >= ToSize(size) * width
            /\ (/\ d.decoder # "CompactSize" /\ Len(input) >= need
                /\ U64LessEq(size, U64(33554432))
                /\ rest \div width < ToSize(size))
                   => d.error = "unexpected_end"

\* A vector of three items was announced, two whole items and a half were
\* there, and the decoder failed with unexpected_end
C14_Witness ==
    /\ lastDeserialize.called
    /\ lastDeserialize.decoder = "vector"
    /\ lastDeserialize.input = <<3, 7, 8, 9, 10, 11>>
    /\ lastDeserialize.error = "unexpected_end"
---------------------------------------------------------------------------
(* Lottery evaluations *)

\* C15: verification accepts every honestly produced evaluation.  VerifyLottery
\* of what ComputeLottery returned for a seed and key, asked with that seed and
\* key, is true; VRF::verify of what generate returned for an input, asked with
\* that input and the public key of the generating secret key, is true.
C15_HonestEvaluationsVerify ==
    /\ (/\ lastLotteryVerify.called
        /\ lastLotteryVerify.block_seed = lotteryInput.block_seed
        /\ lastLotteryVerify.participant_key = lotteryInput.participant_key)
           => lastLotteryVerify.value = TRUE
    /\ (/\ vrfVerdict.called
        /\ vrfVerdict.publicKey = GetPubKey(vrfInput.secretKey)
        /\ vrfVerdict.input = vrfInput.input)
           => (vrfVerdict.returned.has_value /\ vrfVerdict.returned.value = TRUE)

\* C16: the seed is a function of the chain state only, so a candidate
\* TryGenerateBlock returned passes the VRF check of ValidateBlock at any later
\* time.
C16_CandidatePassesVrfCheckLater ==
    (/\ lastCandidate.made = "candidate"
     /\ lastValidation.by = "ProofOfParticipation"
     /\ lastValidation.candidate =
            [timestamp |-> lastCandidate.timestamp,
             producer_key |-> lastCandidate.producer_key,
             lottery_proof |-> lastCandidate.lottery_proof]
     /\ lastValidation.at > lastCandidate.timestamp)
        => lastValidation.result # "InvalidVRF"

\* C17: a win does not depend on stake.  For one seed and key ComputeLottery
\* returns the same is_winner and probability whatever the total participating
\* stake; for one seed, height and list of entries selectWinner picks the entry
\* at the same place whatever the amounts of the entries.
C17_WinIndependentOfStake ==
    /\ \A r1 \in lotteryRuns, r2 \in lotteryRuns :
          /\ r1.result.is_winner = r2.result.is_winner
          /\ r1.result.probability = r2.result.probability
    /\ \A r1 \in selectRuns, r2 \in selectRuns :
          /\ r1.winner.has_value = r2.winner.has_value
          /\ r1.winner.has_value => r1.winner.value.txid = r2.winner.value.txid

\* The lottery was computed for a losing hash under a total stake of zero and
\* under a larger one, and a winner was picked among entries registered with
\* different amounts
C17_Witness ==
    /\ \E r1 \in lotteryRuns, r2 \in lotteryRuns :
          /\ r1.total_participating_stake = 0
          /\ r2.total_participating_stake > 0
          /\ ~r1.result.is_winner
    /\ \E r1 \in selectRuns, r2 \in selectRuns :
          /\ r1.amounts # r2.amounts
          /\ r1.winner.has_value
          /\ r1.winner.value.amount # r2.winner.value.amount

---------------------------------------------------------------------------
(* Order of the zones of a template *)

\* C18: the free zone lists its entries in descending priority score, among
\* entries of equal score the one received earlier first; and of two
\* free-eligible entries of equal score of which one is in the free zone and
\* the other is not, the one in the zone is not the one received later.
C18_FreeZoneByPriorityThenAge ==
    blockTemplate.built =>
        LET free == blockTemplate.block.free_transactions
        IN  /\ \A i \in DOMAIN free, j \in DOMAIN free :
                  i < j =>
                     \/ free[i].priority_info.priority_score > free[j].priority_info.priority_score
                     \/ /\ free[i].priority_info.priority_score = free[j].priority_info.priority_score
                        /\ free[i].received_time <= free[j].received_time
            /\ \A i \in DOMAIN free, k \in DOMAIN mempool :
                  (/\ mempool[k].priority_info.qualifies_for_free
                   /\ \A j \in DOMAIN free : free[j].hash # mempool[k].hash
                   /\ mempool[k].priority_info.priority_score = free[i].priority_info.priority_score)
                     => free[i].received_time <= mempool[k].received_time

\* C19: every entry of the mempool that is not in the free zone is a candidate
\* for the fee zone: it is in the fee zone unless the entries that come before
\* it (a higher fee per byte, or the same and received earlier) and are in the
\* fee zone leave less room than its size; and the fee zone lists its entries
\* in that order.
C19_RestPackedByFeeRate ==
    blockTemplate.built =>
        LET free      == blockTemplate.block.free_transactions
            fees      == blockTemplate.block.fee_transactions
            available == MAX_BLOCK_SIZE - SizeOf(free)
            Before(a, b) ==
                \/ FracLess(b.fee_paid, b.size_bytes, a.fee_paid, a.size_bytes)
                \/ /\ ~FracLess(a.fee_paid, a.size_bytes, b.fee_paid, b.size_bytes)
                   /\ a.received_time < b.received_time
            ComesBefore(e) == LET B(f) == Before(f, e) IN SelectSeq(fees, B)
        IN  /\ \A i \in DOMAIN fees, j \in DOMAIN fees : i < j => ~Before(fees[j], fees[i])
            /\ \A k \in DOMAIN mempool :
                  (/\ \A j \in DOMAIN free : free[j].hash # mempool[k].hash
                   /\ \A j \in DOMAIN fees : fees[j].hash # mempool[k].hash)
                     => SizeOf(ComesBefore(mempool[k])) + mempool[k].size_bytes > available

---------------------------------------------------------------------------
(* Fees at admission *)

---------------------------------------------------------------------------
(* Admission of a transaction the pool has *)

---------------------------------------------------------------------------
(* Syntactic limits of a block *)

\* C22: CheckBlock accepts a block only if it has a transaction, its first
\* transaction is a coinbase, no outpoint is spent by two inputs of the block,
\* and its serialized size is at most MAX_BLOCK_SIZE bytes.
C22_CheckBlockLimits ==
    (argument.of = "CBlock" /\ returned.called /\ returned.value) =>
        LET vtx == argument.vtx
        IN  /\ vtx # <<>>
            /\ CTransaction_IsCoinBase(vtx[1])
            /\ \A i, j \in DOMAIN vtx : \A k \in DOMAIN vtx[i].vin, l \in DOMAIN vtx[j].vin :
                  (i # j \/ k # l) => vtx[i].vin[k] # vtx[j].vin[l]
            /\ SerializeSize(vtx) <= main_MAX_BLOCK_SIZE

---------------------------------------------------------------------------
(* Block timestamps *)

\* C23: the validation of a participation block accepts a timestamp t exactly
\* when parent.time - 24h <= t <= now + 2h; the lower end is taken from the
\* time of the parent and not from the clock of the validator.  Asked of
\* blocks that pass every other check of PoPSecurity::ValidateBlock.
C23_TimestampWithinParentAndNow ==
    (/\ lastValidation.by = "PoPSecurity"
     /\ lastValidation.block.txOk)
    => (lastValidation.result <=>
           /\ lastValidation.block.prevTime - 24 * 60 <= lastValidation.block.nTime
           /\ lastValidation.block.nTime <= lastValidation.at + 2 * 60)

---------------------------------------------------------------------------
(* Admission of nodes by subnet *)

\* C24: ShouldAllowNode admits a participant whose coin age is at least ten
\* times the stake maturity whatever the number of nodes in its subnet, and a
\* newer participant exactly while its /24 subnet holds at most
\* MAX_NODES_PER_SUBNET = 2 nodes.
C24_SubnetCapAndVeterans ==
    (argument.of = "node" /\ returned.called /\ returned.by = "ShouldAllowNode") =>
        LET held == CountNodesInSubnet(argument.new_node, 24, argument.existing_nodes)
        IN  IF argument.metrics.coin_age_blocks >= 10 * 1440
            THEN returned.value
            ELSE returned.value <=> held <= 2

---------------------------------------------------------------------------
(* The subsidy schedule *)

\* C25: for every height h >= 0 the subsidy part of GetBlockValue(h, fees) is
\* the initial subsidy of 50 coins shifted right by h / 840000 and raised to
\* the floor of one coin, no lower height has a smaller subsidy, and the two
\* definitions of GetBlockValue return the same value for the same height.
C25_SubsidyScheduleAgrees ==
    (argument.of = "height" /\ returned.called) =>
        LET h       == argument.nHeight
            halved  == IF h \div 840000 >= 31 THEN 0 ELSE (50 * COIN) \div 2^(h \div 840000)
            subsidy == IF halved < COIN THEN COIN ELSE halved
        IN  /\ returned.value - argument.nFees = subsidy
            /\ \A lower \in {l \in RewardHeights : l <= h} :
                   /\ \A v \in GetBlockValueOutcomes(lower, 0) : v >= subsidy
                   /\ goldcoin_GetBlockValue(lower, 0) >= goldcoin_GetBlockValue(h, 0)
            /\ returned.value = goldcoin_GetBlockValue(h, argument.nFees)

---------------------------------------------------------------------------
(* The generation loop *)

---------------------------------------------------------------------------
(* The tasks of a peer *)

---------------------------------------------------------------------------
(* The value of the outputs *)

\* The sum of the values, as a number
RECURSIVE SumOfValues(_)
SumOfValues(vout) == IF vout = <<>> THEN 0 ELSE Head(vout) + SumOfValues(Tail(vout))

\* C28: when CTransaction::GetValueOut returns, what it returns is the sum of
\* the output values, and every output value and the sum are in
\* [0, MAX_MONEY]; for any other 64-bit output values it fails.
C28_ValueOutExactOrFails ==
    (argument.of = "CTransaction" /\ returned.called) =>
        LET inRange == /\ \A i \in DOMAIN argument.vout :
                              argument.vout[i] >= 0 /\ argument.vout[i] <= main_MAX_MONEY
                       /\ SumOfValues(argument.vout) >= 0
                       /\ SumOfValues(argument.vout) <= main_MAX_MONEY
        IN  IF returned.outcome.threw THEN ~inRange
            ELSE inRange /\ returned.outcome.value = SumOfValues(argument.vout)

C28_Witness ==
    /\ argument.of = "CTransaction" /\ returned.called /\ ~returned.outcome.threw
    /\ Len(argument.vout) >= 2 /\ returned.outcome.value = main_MAX_MONEY

---------------------------------------------------------------------------
(* One stake for each address *)

\* C29: one stake, one vote: whatever addParticipant and removeParticipant
\* calls were made, no address is in more than one entry of
\* activeParticipants, so that no address has more than one place among those
\* VRF::selectWinner chooses from.
C29_OneEntryPerAddress ==
    \A i, j \in DOMAIN activeParticipants :
        i # j => activeParticipants[i].address # activeParticipants[j].address

---------------------------------------------------------------------------
(* Finality *)

\* C30: finality is decided by depth alone: IsBlockFinalized(h) is true
\* exactly when the best height is at least FINALITY_DEPTH above h, whatever
\* the checkpoints are.
C30_FinalByDepthAlone ==
    (argument.of = "PoPCheckpoints" /\ returned.called) =>
        (returned.value <=> nBestHeight - argument.nHeight >= 30)

---------------------------------------------------------------------------
(* The free phase of CreateNewBlock *)

\* The bytes of the transactions of a block
RECURSIVE BytesOf(_)
BytesOf(vtx) == IF vtx = <<>> THEN 0 ELSE TxSize(Head(vtx)) + BytesOf(Tail(vtx))

\* C31: in a block assembled by CreateNewBlock the transactions added by
\* AddPriorityTransactions take at most DEFAULT_BLOCK_PRIORITY_SIZE bytes, 5%
\* of the maximum block size, whatever the pool holds.
C31_FreePhaseWithinFivePercent ==
    pblock.by = "CreateNewBlock" => BytesOf(pblock.freeTx) <= DEFAULT_BLOCK_PRIORITY_SIZE

---------------------------------------------------------------------------
(* The handshake *)

\* C32: version is the first message written to the socket of a started
\* peer: SendLoop writes no other message while no version has been queued
\* with PushVersion; and a version that is received and dispatched queues
\* exactly one verack.
C32_VersionFirst ==
    [][ /\ (SendLoop(TRUE) /\ send_queue_ # <<>>) =>
               (Head(send_queue_) = "version" \/ version_sent_)
        /\ (lastFrame' # lastFrame /\ lastFrame'.dispatched /\ lastFrame'.frame.command = "version") =>
               send_queue_' = Append(send_queue_, "verack")
      ]_vars

---------------------------------------------------------------------------
(* Shutdown of the generation loop *)

\* C33: once fShutdown is set ParticipationMiner eventually returns, and
\* stays returned; at the head of an iteration with fShutdown set it returns
\* and starts nothing, and in the wait for peers with fShutdown set and no
\* peer it returns.
C33_MinerReturnsOnShutdown ==
    /\ fShutdown ~> [](minerAt = "returned")
    /\ [][ /\ (fShutdown /\ minerAt = "while" /\ minerAt' # minerAt) => minerAt' = "returned"
           /\ (fShutdown /\ minerAt = "peers" /\ vNodes = 0 /\ minerAt' # minerAt) =>
                  minerAt' = "returned"
           /\ (fShutdown /\ pblock' # pblock) => minerAt = "create"
         ]_vars

C33_Witness == fShutdown /\ minerAt = "returned" /\ lastProcessBlock.called

---------------------------------------------------------------------------
(* Activation of the hard fork *)

\* C34: the activation is one-shot: over any calls of ProcessHardFork and
\* CheckActivation the flag never goes back to false, the activation height
\* and hash are those of the first block at a height of HARD_FORK_HEIGHT or
\* more and never change afterwards, and the initialisation, the database
\* record and the broadcast of the activation happen at most once.
C34_ActivationOneShot ==
    [][ /\ fActivated =>
              /\ fActivated'
              /\ nActivationHeight' = nActivationHeight
              /\ activationBlockHash' = activationBlockHash
              /\ nActivations' = nActivations
        /\ (~fActivated /\ fActivated') =>
              /\ nActivationHeight' >= HARD_FORK_HEIGHT
              /\ nActivations' = 1
        /\ ~fActivated' =>
              /\ nActivations' = 0
              /\ nActivationHeight' = 0
        /\ (~fActivated /\ lastForkValidation' # lastForkValidation
              /\ lastForkValidation'.nHeight >= HARD_FORK_HEIGHT) =>
              /\ fActivated'
              /\ nActivationHeight' = lastForkValidation'.nHeight
              /\ activationBlockHash' = lastForkValidation'.block.hash
      ]_vars

C34_Witness ==
    /\ fActivated /\ nActivations = 1
    /\ lastForkValidation.called
    /\ lastForkValidation.nHeight >= HARD_FORK_HEIGHT
    /\ lastForkValidation.block.hash # activationBlockHash


---------------------------------------------------------------------------
(* Claims about the shutdown request *)

\* C35: once ThreadManager::request_shutdown has stored the request,
\* shutdown_requested() stays true; from then on every thread that is in
\* wait_for_shutdown comes to return and stays out of it, whatever the
\* interleaving of the wait with the request; and is_running() is false from
\* the first statement of AppContext::request_shutdown on, through its return
\* and after it.
C35_ShutdownSticksAndWakes ==
    /\ [][shutdown_requested => shutdown_requested_']_vars
    /\ shutdown_requested ~> [](\A t \in Waiters : waitAt[t] = "out")
    /\ [](requestAt["AppContext"] # "out" => ~is_running)
    /\ [][(~is_running \/ StoreNotRunning("AppContext")) => ~running_']_vars

\* The request through AppContext has returned and its notify_all has
\* unblocked every waiting thread, each of which is about to compare and return.
C35_Witness ==
    /\ shutdown_requested /\ ~is_running
    /\ requestAt = [r \in Requesters |-> "out"]
    /\ \A t \in Waiters : waitAt[t] = "unblocked"

---------------------------------------------------------------------------
(* Claims about the descriptor of a Node *)

\* C36: close is called at most once on the descriptor of a Node, whatever the
\* interleaving of the Disconnect calls of the receive thread, of another
\* thread and of the destructor, and no recv or send call passes the
\* descriptor once it has been closed.
C36_ClosedOnceAndNotUsedAfter ==
    /\ closeCalls <= 1
    /\ lastIo.called => ~(lastIo.closed /\ lastIo.fd # -1)

---------------------------------------------------------------------------
(* Claims about the send queue of a Node *)

\* C37: the messages written to the socket of a peer are, in order, the first
\* messages that PushMessage queued for it: each is written after all those
\* queued before it and none is written twice, whatever the interleaving of
\* the pushing threads with the send thread.
C37_WrittenInQueueOrder ==
    /\ Len(wire) <= Len(pushed)
    /\ \A i \in DOMAIN wire : wire[i] = pushed[i]
    /\ \A i, j \in DOMAIN wire : wire[i] = wire[j] => i = j

\* Messages of the three pushing threads have been written while another one
\* waits in the queue.
C37_Witness ==
    /\ {wire[i].from : i \in DOMAIN wire} = PushThreads
    /\ send_queue_ # <<>>

---------------------------------------------------------------------------
(* Claims about what a block holds *)

\* C38: an assembled block or template holds no transaction twice and is not
\* larger than the maximum block size: the fee zone of a template has no
\* transaction of its free zone, the fee phase of CreateNewBlock adds no
\* transaction of the free phase, the collection loop of ParticipationMiner
\* adds each pooled transaction at most once, and the bytes of the result
\* (with the 1000 bytes ParticipationMiner reserves for the header) are at
\* most the maximum block size.
C38_NothingTwiceWithinMaximum ==
    /\ blockTemplate.built =>
          LET free == blockTemplate.block.free_transactions
              fee  == blockTemplate.block.fee_transactions
          IN  /\ \A i \in DOMAIN free, j \in DOMAIN fee : free[i].hash # fee[j].hash
              /\ blockTemplate.block.total_size_bytes <= MAX_BLOCK_SIZE
    /\ pblock.by = "CreateNewBlock" =>
          /\ \A i, j \in DOMAIN pblock.vtx : pblock.vtx[i] = pblock.vtx[j] => i = j
          /\ \A i \in DOMAIN pblock.vtx :
                i > Len(pblock.freeTx) => pblock.vtx[i] \notin Range(pblock.freeTx)
          /\ BytesOf(pblock.vtx) <= DEFAULT_BLOCK_MAX_SIZE
    /\ pblock.by = "ParticipationMiner" =>
          /\ \A i, j \in DOMAIN pblock.vtx : pblock.vtx[i] = pblock.vtx[j] => i = j
          /\ 1000 + BytesOf(pblock.vtx) <= main_MAX_BLOCK_SIZE

---------------------------------------------------------------------------
(* Claims about the transactions of a database *)

\* C39: the open transactions of a CDB are exactly those of vTxn, each the
\* child of the one below it; a TxnBegin that succeeds pushes one child of the
\* innermost; TxnCommit and TxnAbort end the innermost one and no other, and
\* with no open transaction they return false and change nothing; Read, Write,
\* Erase and Exists pass the innermost open transaction, or none when none is
\* open.
C39_TransactionsNest ==
    /\ [](/\ \A i \in DOMAIN vTxn :
                /\ txns[vTxn[i]].state = "open"
                /\ txns[vTxn[i]].parent = IF i = 1 THEN NullTxn ELSE vTxn[i - 1]
          /\ \A id \in DOMAIN txns : txns[id].state = "open" => \E i \in DOMAIN vTxn : vTxn[i] = id)
    /\ [][\A ret \in DbReturns :
            TxnBegin(ret) /\ lastDb'.value =>
                /\ Len(vTxn') = Len(vTxn) + 1
                /\ SubSeq(vTxn', 1, Len(vTxn)) = vTxn
                /\ txns'[vTxn'[Len(vTxn')]].parent = IF vTxn = <<>> THEN NullTxn ELSE vTxn[Len(vTxn)]
                /\ SubSeq(txns', 1, Len(txns)) = txns]_vars
    /\ [][\A call \in {"TxnCommit", "TxnAbort"}, ret \in DbReturns :
            TxnEnd(call, ret) =>
                IF vTxn = <<>>
                THEN ~lastDb'.value /\ UNCHANGED <<vTxn, txns>>
                ELSE pdb =>
                       /\ vTxn' = SubSeq(vTxn, 1, Len(vTxn) - 1)
                       /\ txns'[vTxn[Len(vTxn)]].state # "open"
                       /\ \A id \in DOMAIN txns : id # vTxn[Len(vTxn)] => txns'[id] = txns[id]
                       /\ (call = "TxnCommit" /\ lastDb'.value => txns'[vTxn[Len(vTxn)]].state = "committed")]_vars
    /\ [](lastDb.called /\ lastDb.call \in {"Read", "Write", "Erase", "Exists"} /\ lastDb.reached =>
            lastDb.txn = IF vTxn = <<>> THEN NullTxn ELSE vTxn[Len(vTxn)])

\* Three transactions are open, one within the other, and a write has passed
\* the innermost.
C39_Witness ==
    /\ Len(vTxn) = 3
    /\ lastDb.called /\ lastDb.call = "Write" /\ lastDb.reached /\ lastDb.txn = vTxn[3]

---------------------------------------------------------------------------
(* Claims about the list of checkpoints *)

\* C40: whatever calls of LoadHistoricalCheckpoints and MaybeAddCheckpoint were
\* made, the list has at most one checkpoint for a height,
\* lastCheckpointHeight is the largest height of the list, and every
\* checkpoint MaybeAddCheckpoint added is at a multiple of CHECKPOINT_INTERVAL
\* and was at least FINALITY_DEPTH below the best height when it was added.
C40_OnePerHeightLastIsLargest ==
    /\ \A i, j \in DOMAIN checkpoints : checkpoints[i].height = checkpoints[j].height => i = j
    /\ \A i \in DOMAIN checkpoints : checkpoints[i].height <= lastCheckpointHeight
    /\ checkpoints # <<>> => \E i \in DOMAIN checkpoints : checkpoints[i].height = lastCheckpointHeight
    /\ \A i \in Added :
          /\ checkpoints[i].height % CHECKPOINT_INTERVAL = 0
          /\ checkpoints[i].best - checkpoints[i].height >= FINALITY_DEPTH
=============================================================================
